---- MODULE Spec2Model ----
(***************************************************************************)
(* A model of the code-assistant tool server (src/mcp-code-assistant.py)   *)
(* and of its client (src/test.py).                                        *)
(*                                                                         *)
(* The filesystem is a tree of named entries under the process's working   *)
(* directory.  A path string is a sequence of components; file data and    *)
(* text are sequences of one-character strings.  POSIX semantics are       *)
(* modelled throughout (os.sep = "/", os.linesep = "\n").                  *)
(***************************************************************************)
EXTENDS Integers, Sequences, FiniteSets, TLC

VARIABLES
    fs,      \* the filesystem: path -> entry
    last,    \* the last tool call: its name, its arguments and what it returned
    chain,   \* how far the calls so far follow create_file, delete_file, get_file on one path
    parsed,  \* the syntax tree handed to the analyzer
    report,  \* what the analyzer made of it
    client,  \* the client's position in analyze_project and its local variables
    wire     \* the stdio transport: requests not yet handled, results not yet received

vars == <<fs, last, chain, parsed, report, client, wire>>

-----------------------------------------------------------------------------
(* Bounds of the model.                                                    *)

\* Longest path, in components, that the model's filesystem holds.
MaxDepth == 2

\* The entry names that occur: one with the .py suffix, one without.
Names == {"m.py", "s"}

\* sorted(Names), as sorted() orders strings.
SortedNames == <<"m.py", "s">>

LF == "\n"
CR == "\r"

-----------------------------------------------------------------------------
(* Paths.                                                                  *)

RECURSIVE SeqsUpTo(_, _)
SeqsUpTo(S, n) ==
    IF n = 0 THEN {<<>>}
    ELSE LET shorter == SeqsUpTo(S, n - 1)
         IN  shorter \cup {Append(s, x) : s \in {t \in shorter : Len(t) = n - 1}, x \in S}

\* DEFAULT_README_PATH = "README.md"
DEFAULT_README_PATH == "README.md"

\* The paths the tool calls are made on.
ArgPaths == SeqsUpTo(Names, MaxDepth) \ {<<>>}

\* Every path of the modelled tree, written relative to the working directory: the
\* paths of the calls, and the README of the working directory and of the directory s.
AllPaths == ArgPaths \cup {<<DEFAULT_README_PATH>>, <<"s", DEFAULT_README_PATH>>}

\* The string "." (the working directory) and the empty string "".
Dot == <<".">>
EmptyStr == <<"">>

\* os.path.dirname: "" for a bare name.
Dirname(p) == IF Len(p) <= 1 THEN EmptyStr ELSE SubSeq(p, 1, Len(p) - 1)

\* os.path.basename
Basename(p) == p[Len(p)]

\* os.path.join(d, name) for a single-component name
Join(d, n) == IF d \in {EmptyStr, Dot} THEN <<n>> ELSE Append(d, n)

\* str.endswith('.py')
EndsWithPy(p) == Basename(p) = "m.py"

IsPrefix(p, q) == Len(p) <= Len(q) /\ SubSeq(q, 1, Len(p)) = p

-----------------------------------------------------------------------------
(* Filesystem entries and the os / os.path calls the server makes.         *)

Absent == [kind |-> "absent", data |-> <<>>]
DirEntry == [kind |-> "dir", data |-> <<>>]
FileEntry(d) == [kind |-> "file", data |-> d]

\* os.path.exists
Exists(f, p) == p = Dot \/ (p \in AllPaths /\ f[p].kind # "absent")

\* os.path.isdir
IsDir(f, p) == p = Dot \/ (p \in AllPaths /\ f[p].kind = "dir")

\* os.path.isfile
IsFile(f, p) == p \in AllPaths /\ f[p].kind = "file"

\* The tree node a directory string names: <<>> is the working directory.
NodeOf(d) == IF d = Dot THEN <<>> ELSE d

\* os.listdir of the node d, as a set
ListDir(f, d) == {n \in Names : Append(d, n) \in AllPaths /\ f[Append(d, n)].kind # "absent"}

\* Everything below the node d.
Below(f, d) == {q \in AllPaths : Len(q) > Len(d) /\ IsPrefix(d, q) /\ f[q].kind # "absent"}

\* Whether the directory that is to hold p exists (a bare name lives in the working directory).
ParentIsDir(f, p) == Len(p) = 1 \/ IsDir(f, Dirname(p))

\* A filesystem the operating system can hold: every entry lies in a directory.
WellFormed(f) == \A p \in AllPaths : f[p].kind # "absent" => ParentIsDir(f, p)

\* The non-empty prefixes of p, p included.
Prefixes(p) == {SubSeq(p, 1, k) : k \in 1..Len(p)}

\* os.makedirs(p, exist_ok=True): every missing ancestor and p itself become directories;
\* it raises when the path is empty, runs through a file, or names a file.
MakedirsOk(f, p) == p \in AllPaths /\ \A q \in Prefixes(p) : f[q].kind # "file"
Makedirs(f, p) == [q \in AllPaths |-> IF q \in Prefixes(p) THEN DirEntry ELSE f[q]]

-----------------------------------------------------------------------------
(* Text files: open(path, mode, encoding='utf-8') with the default newline *)
(* handling of text mode.                                                  *)

\* os.linesep
LineSep == <<LF>>

\* Writing in text mode: every "\n" is written as os.linesep.
RECURSIVE TranslateWrite(_)
TranslateWrite(t) ==
    IF t = <<>> THEN <<>>
    ELSE (IF Head(t) = LF THEN LineSep ELSE <<Head(t)>>) \o TranslateWrite(Tail(t))

\* Reading in text mode (universal newlines): "\r\n" and a lone "\r" are read as "\n".
RECURSIVE TranslateRead(_)
TranslateRead(d) ==
    IF d = <<>> THEN <<>>
    ELSE IF Head(d) = CR
         THEN IF Len(d) >= 2 /\ d[2] = LF
              THEN <<LF>> \o TranslateRead(Tail(Tail(d)))
              ELSE <<LF>> \o TranslateRead(Tail(d))
         ELSE <<Head(d)>> \o TranslateRead(Tail(d))

\* Whether a proper prefix of p is a file (the OS answers ENOTDIR).
ThroughFile(f, p) == \E q \in Prefixes(p) : q # p /\ f[q].kind = "file"

\* The exception open(p, 'r') raises, "" when it succeeds.
OpenReadError(f, p) ==
    IF p \notin AllPaths THEN "FileNotFoundError"
    ELSE IF f[p].kind = "file" THEN ""
    ELSE IF f[p].kind = "dir" THEN "IsADirectoryError"
    ELSE IF ThroughFile(f, p) THEN "NotADirectoryError"
    ELSE "FileNotFoundError"

\* A byte that is not UTF-8, as the e with an accent of a Latin-1 text.
BadByte == "<e9>"

\* The exception open(p, 'r') or file.read() raises, "" when the text is read.
ReadError(f, p) ==
    IF OpenReadError(f, p) # "" THEN OpenReadError(f, p)
    ELSE IF \E i \in 1..Len(f[p].data) : f[p].data[i] = BadByte THEN "UnicodeDecodeError"
    ELSE ""

\* The exception open(p, 'w') raises, "" when it succeeds.  A path that ends in a
\* separator, its last component empty, names the directory before it.
OpenWriteError(f, p) ==
    IF Len(p) > 1 /\ Basename(p) = "" /\ Dirname(p) \in AllPaths
    THEN IF f[Dirname(p)].kind = "absent" THEN "FileNotFoundError" ELSE "IsADirectoryError"
    ELSE IF p \notin AllPaths THEN "FileNotFoundError"
    ELSE IF f[p].kind = "dir" THEN "IsADirectoryError"
    ELSE IF ThroughFile(f, p) THEN "NotADirectoryError"
    ELSE IF ~ParentIsDir(f, p) THEN "FileNotFoundError"
    ELSE ""

\* A lone surrogate, a character that UTF-8 cannot encode.
Surrogate == "<d800>"

\* The exception file.write(content) raises, "" when the text is written.
WriteError(content) ==
    IF \E i \in 1..Len(content) : content[i] = Surrogate THEN "UnicodeEncodeError" ELSE ""

\* open(p, 'w') of a file: it is created or emptied, before anything is written.
Truncate(f, p) == [f EXCEPT ![p] = FileEntry(<<>>)]

\* with open(p, 'w') as f: f.write(content)
WriteText(f, p, content) == [f EXCEPT ![p] = FileEntry(TranslateWrite(content))]

\* with open(p, 'r') as f: f.read()
ReadText(f, p) == TranslateRead(f[p].data)

-----------------------------------------------------------------------------
(* What a tool function hands back: the text it returns, the JSON object   *)
(* it serialises, or an exception that leaves it.                          *)

TextResult(t) == [kind |-> "text", text |-> t]
JsonResult(o) == [kind |-> "json", obj |-> o]
RaisedResult(e) == [kind |-> "raised", exc |-> e]

\* The outcome of a function body: the filesystem it leaves and its result.
Return(f, r) == [fs |-> f, result |-> r]
Raise(f, e) == [fs |-> f, result |-> RaisedResult(e)]

\* f"Error reading file: {str(e)}"
ErrorReadingFile(e) == <<"Error reading file: ", e>>

\* get_file_content: the text of the file, or the error text in its place.
get_file_content(f, p) ==
    IF ReadError(f, p) = "" THEN ReadText(f, p)
    ELSE ErrorReadingFile(ReadError(f, p))

\* write_file_content: [ok, fs]
write_file_content(f, p, content) ==
    IF OpenWriteError(f, p) # "" THEN [ok |-> FALSE, fs |-> f]
    ELSE IF WriteError(content) # "" THEN [ok |-> FALSE, fs |-> Truncate(f, p)]
    ELSE [ok |-> TRUE, fs |-> WriteText(f, p, content)]

\* A tool function without its except clause: the exception leaves it.
ExceptSuccessFalse_Propagates(o) == o

\* except Exception as e: return json.dumps({"success": False, "error": str(e)})
ExceptSuccessFalse(o) ==
    IF o.result.kind = "raised"
    THEN Return(o.fs, JsonResult([success |-> FALSE, error |-> o.result.exc]))
    ELSE o

\* except Exception as e: return json.dumps({"error": str(e)})
ExceptErrorOnly(o) ==
    IF o.result.kind = "raised"
    THEN Return(o.fs, JsonResult([error |-> o.result.exc]))
    ELSE o

-----------------------------------------------------------------------------
(* The tools.  Each operator is the tool function: it maps the filesystem  *)
(* and the arguments to the filesystem it leaves and the result.           *)

get_file(f, file_path) == Return(f, TextResult(get_file_content(f, file_path)))

update_file(f, file_path, content) ==
    LET w == write_file_content(f, file_path, content)
    IN  IF w.ok
        THEN Return(w.fs, JsonResult([success |-> TRUE, message |-> "File updated successfully"]))
        ELSE Return(w.fs, JsonResult([success |-> FALSE, message |-> "Failed to update file"]))

\* (without the os.makedirs of the directory)
create_file_body_NoMakedirs(f, file_path, content) ==
    LET f1 == f
        file_exists == Exists(f1, file_path)
    IN  IF OpenWriteError(f1, file_path) # ""
        THEN Raise(f1, OpenWriteError(f1, file_path))
        ELSE Return(WriteText(f1, file_path, content),
                    JsonResult([success |-> TRUE,
                                message |-> IF file_exists THEN "File overwritten"
                                            ELSE "File created",
                                path |-> file_path,
                                existed_before |-> file_exists]))

create_file_body(f, file_path, content) ==
    LET directory == Dirname(file_path)
        makes == directory # EmptyStr /\ ~Exists(f, directory)
    IN  IF makes /\ ~MakedirsOk(f, directory) THEN Raise(f, "NotADirectoryError")
        ELSE LET f1 == IF makes THEN Makedirs(f, directory) ELSE f
                 file_exists == Exists(f1, file_path)
             IN  IF OpenWriteError(f1, file_path) # ""
                 THEN Raise(f1, OpenWriteError(f1, file_path))
                 ELSE IF WriteError(content) # ""
                 THEN Raise(Truncate(f1, file_path), WriteError(content))
                 ELSE Return(WriteText(f1, file_path, content),
                             JsonResult([success |-> TRUE,
                                         message |-> IF file_exists THEN "File overwritten"
                                                     ELSE "File created",
                                         path |-> file_path,
                                         existed_before |-> file_exists]))

create_file(f, file_path, content) == ExceptSuccessFalse(create_file_body(f, file_path, content))

create_directory(f, path) ==
    ExceptSuccessFalse(
        IF ~MakedirsOk(f, path) THEN Raise(f, "FileExistsError")
        ELSE Return(Makedirs(f, path),
                    JsonResult([success |-> TRUE, message |-> "Directory created", path |-> path])))

delete_file_body(f, path) ==
    IF ~Exists(f, path)
    THEN Return(f, JsonResult([success |-> FALSE, error |-> "File not found"]))
    ELSE IF IsDir(f, path)
    THEN Return(f, JsonResult([success |-> FALSE,
                               error |-> "Path is a directory, use delete_directory instead"]))
    ELSE Return([f EXCEPT ![path] = Absent],
                JsonResult([success |-> TRUE, message |-> "File deleted"]))

delete_file(f, path) == ExceptSuccessFalse(delete_file_body(f, path))

\* shutil.rmtree(path)
Rmtree(f, path) == [q \in AllPaths |-> IF IsPrefix(path, q) THEN Absent ELSE f[q]]

delete_directory_body(f, path, recursive) ==
    IF ~Exists(f, path)
    THEN Return(f, JsonResult([success |-> FALSE, error |-> "Directory not found"]))
    ELSE IF ~IsDir(f, path)
    THEN Return(f, JsonResult([success |-> FALSE, error |-> "Path is not a directory"]))
    ELSE IF recursive
    THEN Return(Rmtree(f, path), JsonResult([success |-> TRUE, message |-> "Directory deleted"]))
    ELSE IF ListDir(f, path) # {} THEN Raise(f, "OSError: Directory not empty")
    ELSE Return([f EXCEPT ![path] = Absent],
                JsonResult([success |-> TRUE, message |-> "Directory deleted"]))

delete_directory(f, path, recursive) == ExceptSuccessFalse(delete_directory_body(f, path, recursive))

-----------------------------------------------------------------------------
(* Copying, moving and renaming: shutil.copy2, shutil.copytree,            *)
(* shutil.move and os.rename.                                              *)

\* The path under dst that corresponds to q under src.
Rebase(q, src, dst) == dst \o SubSeq(q, Len(src) + 1, Len(q))

\* Whether the tree at src, placed at dst, stays inside the modelled tree.
TreeFits(f, src, dst) == \A q \in Below(f, src) \cup {src} : Rebase(q, src, dst) \in AllPaths

\* The tree at src also placed at dst.
CopyTree(f, src, dst) ==
    [q \in AllPaths |->
        IF IsPrefix(dst, q)
        THEN IF Rebase(q, dst, src) \in AllPaths THEN f[Rebase(q, dst, src)] ELSE Absent
        ELSE f[q]]

\* The tree at src placed at dst and gone from src (os.rename onto a free or replaceable name).
MoveTree(f, src, dst) ==
    [q \in AllPaths |->
        IF IsPrefix(dst, q)
        THEN IF Rebase(q, dst, src) \in AllPaths THEN f[Rebase(q, dst, src)] ELSE Absent
        ELSE IF IsPrefix(src, q) THEN Absent
        ELSE f[q]]

\* if dest_dir and not os.path.exists(dest_dir): os.makedirs(dest_dir)
\* [ok, fs]: the filesystem after the destination's directory was made, when it had to be.
EnsureParent(f, destination) ==
    LET dest_dir == Dirname(destination)
    IN  IF dest_dir # EmptyStr /\ ~Exists(f, dest_dir)
        THEN IF MakedirsOk(f, dest_dir) THEN [ok |-> TRUE, fs |-> Makedirs(f, dest_dir)]
             ELSE [ok |-> FALSE, fs |-> f]
        ELSE [ok |-> TRUE, fs |-> f]

\* Where shutil.copy2 and shutil.move put the source: inside dst when dst is a directory.
RealDst(f, source, destination) ==
    IF IsDir(f, destination) THEN Append(destination, Basename(source)) ELSE destination

\* shutil.copy2(source, destination) of a regular file: the bytes are copied as they are.
Copy2(f, source, destination) ==
    LET dst == RealDst(f, source, destination)
    IN  IF dst = source THEN Raise(f, "SameFileError")
        ELSE IF OpenWriteError(f, dst) # "" THEN Raise(f, OpenWriteError(f, dst))
        ELSE Return([f EXCEPT ![dst] = f[source]], TextResult(dst))

copy_file_body(f, source, destination) ==
    IF ~Exists(f, source)
    THEN Return(f, JsonResult([success |-> FALSE, error |-> "Source file not found"]))
    ELSE IF IsDir(f, source)
    THEN Return(f, JsonResult([success |-> FALSE,
                               error |-> "Source is a directory, use copy_directory instead"]))
    ELSE LET made == EnsureParent(f, destination)
         IN  IF ~made.ok THEN Raise(f, "NotADirectoryError")
             ELSE LET c == Copy2(made.fs, source, destination)
                  IN  IF c.result.kind = "raised" THEN c
                      ELSE Return(c.fs, JsonResult([success |-> TRUE, message |-> "File copied",
                                                    source |-> source,
                                                    destination |-> destination]))

copy_file(f, source, destination) == ExceptSuccessFalse(copy_file_body(f, source, destination))

\* shutil.copytree(source, destination): the destination must not exist.
Copytree(f, source, destination) ==
    IF Exists(f, destination) THEN Raise(f, "FileExistsError")
    ELSE IF ~ParentIsDir(f, destination) THEN Raise(f, "NotADirectoryError")
    ELSE Return(CopyTree(f, source, destination), TextResult(destination))

copy_directory_body(f, source, destination) ==
    IF ~Exists(f, source)
    THEN Return(f, JsonResult([success |-> FALSE, error |-> "Source directory not found"]))
    ELSE IF ~IsDir(f, source)
    THEN Return(f, JsonResult([success |-> FALSE, error |-> "Source is not a directory"]))
    ELSE \* if not os.path.exists(os.path.dirname(destination)): os.makedirs(..., exist_ok=True)
         IF ~Exists(f, Dirname(destination)) /\ ~MakedirsOk(f, Dirname(destination))
         THEN Raise(f, IF Dirname(destination) = EmptyStr THEN "FileNotFoundError"
                       ELSE "NotADirectoryError")
         ELSE LET f1 == IF ~Exists(f, Dirname(destination))
                        THEN Makedirs(f, Dirname(destination)) ELSE f
                  c == Copytree(f1, source, destination)
              IN  IF c.result.kind = "raised" THEN c
                  ELSE Return(c.fs, JsonResult([success |-> TRUE, message |-> "Directory copied",
                                                source |-> source,
                                                destination |-> destination]))

copy_directory(f, source, destination) ==
    ExceptSuccessFalse(copy_directory_body(f, source, destination))

\* shutil.move(source, destination)
Move(f, source, destination) ==
    IF IsDir(f, destination) /\ destination = source
    THEN Return(f, TextResult(destination))                  \* os.rename(src, src)
    ELSE LET real_dst == RealDst(f, source, destination)
         IN  IF IsDir(f, destination) /\ Exists(f, real_dst)
             THEN Raise(f, "shutil.Error: Destination path already exists")
             ELSE IF real_dst = source THEN Return(f, TextResult(real_dst))
             ELSE IF IsDir(f, source) /\ IsPrefix(source, real_dst)
             THEN Raise(f, "shutil.Error: Cannot move a directory into itself")
             ELSE IF IsDir(f, source) /\ IsFile(f, real_dst)
             THEN Raise(f, "FileExistsError")                \* rename fails, copytree fails
             ELSE IF ThroughFile(f, real_dst) \/ ~ParentIsDir(f, real_dst)
             THEN Raise(f, "NotADirectoryError")
             ELSE Return(MoveTree(f, source, real_dst), TextResult(real_dst))

\* move_file without its os.path.isdir(source) test.
move_file_body_NoKindCheck(f, source, destination) ==
    IF ~Exists(f, source)
    THEN Return(f, JsonResult([success |-> FALSE, error |-> "Source file not found"]))
    ELSE LET made == EnsureParent(f, destination)
         IN  IF ~made.ok THEN Raise(f, "NotADirectoryError")
             ELSE LET m == Move(made.fs, source, destination)
                  IN  IF m.result.kind = "raised" THEN m
                      ELSE Return(m.fs, JsonResult([success |-> TRUE, message |-> "File moved",
                                                    source |-> source,
                                                    destination |-> destination]))

move_file_body(f, source, destination) ==
    IF ~Exists(f, source)
    THEN Return(f, JsonResult([success |-> FALSE, error |-> "Source file not found"]))
    ELSE IF IsDir(f, source)
    THEN Return(f, JsonResult([success |-> FALSE,
                               error |-> "Source is a directory, use move_directory instead"]))
    ELSE LET made == EnsureParent(f, destination)
         IN  IF ~made.ok THEN Raise(f, "NotADirectoryError")
             ELSE LET m == Move(made.fs, source, destination)
                  IN  IF m.result.kind = "raised" THEN m
                      ELSE Return(m.fs, JsonResult([success |-> TRUE, message |-> "File moved",
                                                    source |-> source,
                                                    destination |-> destination]))

move_file(f, source, destination) == ExceptSuccessFalse(move_file_body(f, source, destination))

move_directory_body(f, source, destination) ==
    IF ~Exists(f, source)
    THEN Return(f, JsonResult([success |-> FALSE, error |-> "Source directory not found"]))
    ELSE IF ~IsDir(f, source)
    THEN Return(f, JsonResult([success |-> FALSE, error |-> "Source is not a directory"]))
    ELSE LET made == EnsureParent(f, destination)
         IN  IF ~made.ok THEN Raise(f, "NotADirectoryError")
             ELSE LET m == Move(made.fs, source, destination)
                  IN  IF m.result.kind = "raised" THEN m
                      ELSE Return(m.fs, JsonResult([success |-> TRUE, message |-> "Directory moved",
                                                    source |-> source,
                                                    destination |-> destination]))

move_directory(f, source, destination) ==
    ExceptSuccessFalse(move_directory_body(f, source, destination))

\* os.rename(source, destination)
Rename(f, source, destination) ==
    IF source = destination THEN Return(f, TextResult(destination))
    ELSE IF IsFile(f, source) /\ IsDir(f, destination) THEN Raise(f, "IsADirectoryError")
    ELSE IF IsDir(f, source) /\ IsFile(f, destination) THEN Raise(f, "NotADirectoryError")
    ELSE IF IsDir(f, source) /\ IsDir(f, destination) /\ ListDir(f, destination) # {}
    THEN Raise(f, "OSError: Directory not empty")
    ELSE Return(MoveTree(f, source, destination), TextResult(destination))

rename_file_body(f, source, new_name) ==
    IF ~Exists(f, source)
    THEN Return(f, JsonResult([success |-> FALSE, error |-> "Source file not found"]))
    ELSE IF IsDir(f, source)
    THEN Return(f, JsonResult([success |-> FALSE,
                               error |-> "Source is a directory, use rename_directory instead"]))
    ELSE LET destination == Join(Dirname(source), new_name)
             r == Rename(f, source, destination)
         IN  IF r.result.kind = "raised" THEN r
             ELSE Return(r.fs, JsonResult([success |-> TRUE, message |-> "File renamed",
                                           old_path |-> source, new_path |-> destination]))

rename_file(f, source, new_name) == ExceptSuccessFalse(rename_file_body(f, source, new_name))

rename_directory_body(f, source, new_name) ==
    IF ~Exists(f, source)
    THEN Return(f, JsonResult([success |-> FALSE, error |-> "Source directory not found"]))
    ELSE IF ~IsDir(f, source)
    THEN Return(f, JsonResult([success |-> FALSE, error |-> "Source is not a directory"]))
    ELSE LET destination == Join(Dirname(source), new_name)
             r == Rename(f, source, destination)
         IN  IF r.result.kind = "raised" THEN r
             ELSE Return(r.fs, JsonResult([success |-> TRUE, message |-> "Directory renamed",
                                           old_path |-> source, new_path |-> destination]))

rename_directory(f, source, new_name) ==
    ExceptSuccessFalse(rename_directory_body(f, source, new_name))

\* The inputs of a copy or a move whose result stays inside the modelled tree.
FitsModel(f, source, destination) ==
    LET f1 == EnsureParent(f, destination).fs
        dst == RealDst(f1, source, destination)
    IN  ~Exists(f, source) \/ IsPrefix(source, dst) \/ TreeFits(f, source, dst)

-----------------------------------------------------------------------------
(* Syntax trees.  A tree is the sequence of its nodes in source order      *)
(* (pre-order); node 1 is the ast.Module, and every other node names its   *)
(* parent, the node whose body holds it.                                   *)

\* Most nodes of a tree the analyzer's specification draws, the module included.
MaxNodes == 4

\* ast.get_docstring(node): None, or the cleaned text of the leading string literal.
NoneDoc == [has |-> FALSE, text |-> ""]
Doc(t) == [has |-> TRUE, text |-> t]

\* Python's truth value of what ast.get_docstring returned: None and "" are false.
Truthy(d) == d.has /\ d.text # ""

\* A node: name, doc and args are those of a class or function definition (args: the
\* names in node.args.args; kwonlyargs: those in node.args.kwonlyargs, the parameters
\* declared after a bare *), names and module those of an import statement.
Node(kind, parent, name, lineno, col, doc, args, module, names) ==
    [kind |-> kind, parent |-> parent, name |-> name, lineno |-> lineno,
     col_offset |-> col, doc |-> doc, args |-> args, kwonlyargs |-> <<>>,
     module |-> module, names |-> names]

ModuleNode(doc) == Node("Module", 0, "", 0, 0, doc, <<>>, "", <<>>)

\* The nodes whose body holds statements.
BlockKinds == {"Module", "ClassDef", "FunctionDef", "AsyncFunctionDef", "If"}

\* Children of node i, in source order (ast.iter_child_nodes).
ChildrenOf(tree, i) == SelectSeq([k \in 1..Len(tree) |-> k], LAMBDA k : tree[k].parent = i)

RECURSIVE ConcatChildren(_, _)
ConcatChildren(tree, level) ==
    IF level = <<>> THEN <<>>
    ELSE ChildrenOf(tree, Head(level)) \o ConcatChildren(tree, Tail(level))

RECURSIVE WalkFrom(_, _)
WalkFrom(tree, level) ==
    IF level = <<>> THEN <<>>
    ELSE level \o WalkFrom(tree, ConcatChildren(tree, level))

\* ast.walk(tree): the nodes breadth first, the module first.
Walk(tree) == WalkFrom(tree, <<1>>)

\* The exception ast.parse raises on a text with an unmatched parenthesis.
SyntaxError == <<>>

\* The function definitions that stand on one line of a text: f without a docstring, g
\* with one.
DefLines == {"def f(): pass", "def g(): 'd'"}

\* The statements of a text from the line `line` on, expression statements left out.
RECURSIVE ParseFrom(_, _)
ParseFrom(content, line) ==
    IF content = <<>> THEN <<>>
    ELSE IF Head(content) = LF THEN ParseFrom(Tail(content), line + 1)
    ELSE IF Head(content) = "def f(): pass"
    THEN <<Node("FunctionDef", 1, "f", line, 0, NoneDoc, <<>>, "", <<>>)>>
         \o ParseFrom(Tail(content), line)
    ELSE IF Head(content) = "def g(): 'd'"
    THEN <<Node("FunctionDef", 1, "g", line, 0, Doc("d"), <<>>, "", <<>>)>>
         \o ParseFrom(Tail(content), line)
    ELSE ParseFrom(Tail(content), line)

\* ast.parse(content) for the texts of this model, made of the statement x, one-line
\* function definitions, newlines and "(": a text with "(" does not parse, any other is
\* a module of its function definitions and expression statements.
Parse(content) ==
    IF \E i \in 1..Len(content) : content[i] = "(" THEN SyntaxError
    ELSE <<ModuleNode(NoneDoc)>> \o ParseFrom(content, 1)

\* len(content.splitlines())
RECURSIVE LineCount(_)
LineCount(t) ==
    IF t = <<>> THEN 0
    ELSE IF \E i \in 1..Len(t) : t[i] \in {LF, CR}
         THEN LET i == CHOOSE k \in 1..Len(t) :
                           t[k] \in {LF, CR} /\ \A j \in 1..(k - 1) : t[j] \notin {LF, CR}
                  skip == IF t[i] = CR /\ i < Len(t) /\ t[i + 1] = LF THEN i + 1 ELSE i
              IN  1 + LineCount(SubSeq(t, skip + 1, Len(t)))
         ELSE 1

-----------------------------------------------------------------------------
(* analyze_python_file, after the file was read and parsed.                *)

\* ast.get_docstring(node) or "No docstring"
DocOrSentinel(d) == IF Truthy(d) THEN d.text ELSE "No docstring"

\* The methods list of a class: the ast.FunctionDef statements of its body.
MethodsOf(tree, c) ==
    LET body == SelectSeq(ChildrenOf(tree, c), LAMBDA k : tree[k].kind = "FunctionDef")
    IN  [j \in 1..Len(body) |->
            [name |-> tree[body[j]].name, lineno |-> tree[body[j]].lineno,
             docstring |-> DocOrSentinel(tree[body[j]].doc)]]

ClassesOf(tree) ==
    LET cs == SelectSeq(Walk(tree), LAMBDA k : tree[k].kind = "ClassDef")
    IN  [j \in 1..Len(cs) |->
            [name |-> tree[cs[j]].name, lineno |-> tree[cs[j]].lineno,
             methods |-> MethodsOf(tree, cs[j]),
             docstring |-> DocOrSentinel(tree[cs[j]].doc)]]

FunctionsOf(tree) ==
    LET fns == SelectSeq(Walk(tree),
                         LAMBDA k : tree[k].kind = "FunctionDef" /\ tree[k].col_offset = 0)
    IN  [j \in 1..Len(fns) |->
            [name |-> tree[fns[j]].name, lineno |-> tree[fns[j]].lineno,
             docstring |-> DocOrSentinel(tree[fns[j]].doc)]]

\* (only the first alias of the statement is recorded)
ImportEntries_FirstAlias(n) ==
    [j \in 1..1 |->
        IF n.kind = "Import" THEN [type |-> "import", name |-> n.names[j]]
        ELSE [type |-> "from", module |-> n.module, name |-> n.names[j]]]

\* The entries of one import statement, one for each alias of node.names.
ImportEntries(n) ==
    [j \in 1..Len(n.names) |->
        IF n.kind = "Import" THEN [type |-> "import", name |-> n.names[j]]
        ELSE [type |-> "from", module |-> n.module, name |-> n.names[j]]]

RECURSIVE ConcatImports(_, _)
ConcatImports(tree, nodes) ==
    IF nodes = <<>> THEN <<>>
    ELSE ImportEntries(tree[Head(nodes)]) \o ConcatImports(tree, Tail(nodes))

ImportsOf(tree) ==
    ConcatImports(tree, SelectSeq(Walk(tree),
                                  LAMBDA k : tree[k].kind \in {"Import", "ImportFrom"}))

\* The node kinds the two counts look at.
DocumentableKinds == {"FunctionDef", "ClassDef", "Module"}

\* sum(1 for node in ast.walk(tree) if isinstance(node, (...)) and ast.get_docstring(node))
DocstringCount(tree) ==
    Len(SelectSeq(Walk(tree),
                  LAMBDA k : tree[k].kind \in DocumentableKinds /\ Truthy(tree[k].doc)))

\* The count without the module node.
NodesRequiringDocstrings_NoModule(tree) ==
    Len(SelectSeq(Walk(tree), LAMBDA k : tree[k].kind \in {"FunctionDef", "ClassDef"}))

\* sum(1 for node in ast.walk(tree) if isinstance(node, (...)))
NodesRequiringDocstrings(tree) ==
    Len(SelectSeq(Walk(tree), LAMBDA k : tree[k].kind \in DocumentableKinds))

\* docstring_coverage, a float in the code and here the exact fraction num / den.
DocstringCoverage(count, nodes) ==
    IF nodes > 0 THEN [num |-> count * 100, den |-> nodes] ELSE [num |-> 0, den |-> 1]

\* (with a count of the analyses made so far kept between the calls)
AnalysisReport_CountsCalls(file_path, content, tree) ==
    [file_path |-> file_path,
     line_count |-> LineCount(content) + (IF "disk" \in DOMAIN report THEN 1 ELSE 0),
     classes |-> ClassesOf(tree),
     functions |-> FunctionsOf(tree),
     imports |-> ImportsOf(tree),
     docstring_coverage |-> DocstringCoverage(DocstringCount(tree),
                                              NodesRequiringDocstrings(tree)),
     nodes_requiring_docstrings |-> NodesRequiringDocstrings(tree),
     docstring_count |-> DocstringCount(tree)]

AnalysisReport(file_path, content, tree) ==
    [file_path |-> file_path,
     line_count |-> LineCount(content),
     classes |-> ClassesOf(tree),
     functions |-> FunctionsOf(tree),
     imports |-> ImportsOf(tree),
     docstring_coverage |-> DocstringCoverage(DocstringCount(tree),
                                              NodesRequiringDocstrings(tree)),
     nodes_requiring_docstrings |-> NodesRequiringDocstrings(tree),
     docstring_count |-> DocstringCount(tree)]

\* analyze_python_file: the report, or the error dictionary of its except clause
analyze_python_file(f, file_path) ==
    IF ReadError(f, file_path) # ""
    THEN [error |-> ReadError(f, file_path), file_path |-> file_path]
    ELSE LET content == ReadText(f, file_path)
         IN  IF Parse(content) = SyntaxError
             THEN [error |-> "SyntaxError", file_path |-> file_path]
             ELSE AnalysisReport(file_path, content, Parse(content))

analyze_code(f, file_path) ==
    IF ~EndsWithPy(file_path)
    THEN Return(f, JsonResult([error |-> "Only Python files are supported for analysis"]))
    ELSE Return(f, JsonResult(analyze_python_file(f, file_path)))

-----------------------------------------------------------------------------
(* glob.glob.  A pattern is the sequence of its components; a match is the *)
(* sequence of the components of the matched path ("" last for a trailing  *)
(* separator), the leading "./" of a search in "." left out.               *)

NodeIsDir(f, b) == b = <<>> \/ (b \in AllPaths /\ f[b].kind = "dir")
NodeExists(f, b) == b = <<>> \/ (b \in AllPaths /\ f[b].kind # "absent")

\* fnmatch of an entry name against a pattern component with wildcards
Fnmatch(n, comp) == IF comp = "*.py" THEN n = "m.py" ELSE comp \in {"*", "**"}

\* glob.has_magic
HasMagic(comp) == comp \in {"*", "*.py", "**"}

\* The matches of one component below the base b; last: it is the pattern's last one.
GlobComponent(f, b, comp, recursive, last_one) ==
    IF ~NodeIsDir(f, b) THEN {}
    ELSE IF comp = "**" /\ recursive
    THEN IF last_one THEN {Append(b, "")} \cup Below(f, b)
         ELSE {b} \cup {q \in Below(f, b) : f[q].kind = "dir"}
    ELSE IF HasMagic(comp)
    THEN {Append(b, n) : n \in {m \in ListDir(f, b) : Fnmatch(m, comp)}}
    ELSE IF comp \in {"", ".."} THEN {Append(b, comp)}
    ELSE IF NodeExists(f, Append(b, comp)) THEN {Append(b, comp)} ELSE {}

RECURSIVE GlobFrom(_, _, _, _)
GlobFrom(f, bases, comps, recursive) ==
    IF comps = <<>> THEN bases
    ELSE GlobFrom(f,
                  UNION {GlobComponent(f, b, Head(comps), recursive, Len(comps) = 1) : b \in bases},
                  Tail(comps), recursive)

\* glob.glob(os.path.join(directory, pattern), recursive=recursive), as a set
Glob(f, directory, pattern, recursive) == GlobFrom(f, {NodeOf(directory)}, pattern, recursive)

\* os.path.relpath(match, directory)
RelPath(match, directory) ==
    LET rest == SubSeq(match, Len(NodeOf(directory)) + 1, Len(match))
        named == SelectSeq(rest, LAMBDA c : c # "")
    IN  IF named = <<>> THEN Dot
        ELSE IF Len(named) >= 2 /\ named[Len(named)] = ".."
             THEN IF Len(named) = 2 THEN Dot ELSE SubSeq(named, 1, Len(named) - 2)
        ELSE named

list_files(f, directory, pattern) ==
    ExceptErrorOnly(
        IF ~IsDir(f, directory)
        THEN Return(f, JsonResult([error |-> "Directory not found"]))
        ELSE Return(f, JsonResult([files |-> Glob(f, directory, pattern, TRUE)])))

find_files(f, directory, pattern, recursive) ==
    ExceptSuccessFalse(
        IF ~IsDir(f, directory)
        THEN Return(f, JsonResult([success |-> FALSE, error |-> "Directory not found"]))
        ELSE LET matches == IF recursive THEN Glob(f, directory, <<"**">> \o pattern, TRUE)
                            ELSE Glob(f, directory, pattern, FALSE)
             IN  Return(f, JsonResult([success |-> TRUE, pattern |-> pattern,
                                       recursive |-> recursive, matches |-> matches,
                                       relative_matches |->
                                           {RelPath(m, directory) : m \in matches}])))

-----------------------------------------------------------------------------
(* The remaining read-only tools.                                          *)

\* get_file_info; the size, timestamps and permission bits of os.stat are left out.
get_file_info(f, path) ==
    ExceptSuccessFalse(
        IF ~Exists(f, path)
        THEN Return(f, JsonResult([success |-> FALSE, error |-> "File not found"]))
        ELSE Return(f, JsonResult([success |-> TRUE,
                                   info |-> IF IsDir(f, path)
                                            THEN [path |-> path, is_directory |-> TRUE,
                                                  exists |-> TRUE]
                                            ELSE [path |-> path, is_directory |-> FALSE,
                                                  exists |-> TRUE,
                                                  extension |-> IF EndsWithPy(path) THEN ".py"
                                                                ELSE ""]])))

\* build_tree of get_project_structure: the entries of a directory in sorted order.
RECURSIVE build_tree(_, _, _, _)
build_tree(f, node, name, level) ==
    IF ~NodeIsDir(f, node)
    THEN [type |-> "file", name |-> name, path |-> node, level |-> level]
    ELSE LET items == SelectSeq(SortedNames, LAMBDA n : n \in ListDir(f, node))
         IN  [type |-> "directory", name |-> name, path |-> node, level |-> level,
              children |-> [i \in 1..Len(items) |->
                               build_tree(f, Append(node, items[i]), items[i], level + 1)]]

get_project_structure(f, directory) ==
    build_tree(f, NodeOf(directory), Basename(directory), 0)

get_project_tree(f, directory) ==
    IF ~IsDir(f, directory)
    THEN Return(f, JsonResult([error |-> "Directory not found"]))
    ELSE Return(f, JsonResult(get_project_structure(f, directory)))

\* What running an external program can come to: it exits with 0, it exits with another
\* code, or subprocess.run raises (the program is not installed).
ProcessOutcomes == {"exit0", "exit1", "raises"}

execute_command(outcome) ==
    IF outcome = "raises" THEN [success |-> FALSE, error |-> "FileNotFoundError"]
    ELSE [success |-> outcome = "exit0", stdout |-> "stdout", stderr |-> "stderr",
          returncode |-> IF outcome = "exit0" THEN 0 ELSE 1]

\* dict.get(key, default)
Get(d, key, default) == IF key \in DOMAIN d THEN d[key] ELSE default

run_tests(f, directory, outcome) ==
    ExceptErrorOnly(
        IF ~IsDir(f, directory)
        THEN Return(f, JsonResult([error |-> "Directory not found"]))
        ELSE LET result == execute_command(outcome)
             IN  Return(f, JsonResult([success |-> result["success"],
                                       stdout |-> Get(result, "stdout", ""),
                                       stderr |-> Get(result, "stderr", ""),
                                       returncode |-> Get(result, "returncode", 1)])))

lint_code(f, file_path, outcome) ==
    ExceptErrorOnly(
        IF ~EndsWithPy(file_path)
        THEN Return(f, JsonResult([error |-> "Only Python files are supported for linting"]))
        ELSE IF ~IsFile(f, file_path)
        THEN Return(f, JsonResult([error |-> "File not found"]))
        ELSE LET result == execute_command(outcome)
             IN  Return(f, JsonResult([success |-> result["success"],
                                       output |-> Get(result, "stdout", ""),
                                       errors |-> Get(result, "stderr", ""),
                                       returncode |-> Get(result, "returncode", 1)])))

-----------------------------------------------------------------------------
(* generate_docstring.  The suggested docstring is the sequence of its     *)
(* lines, each the sequence of its parts.                                  *)

\* The first node of ast.walk(tree) that satisfies Test, 0 when there is none.
FirstOf(hits) == IF hits = <<>> THEN 0 ELSE Head(hits)

\* object_name "" and line_number 0 stand for arguments left out (None): both are tested
\* for their truth value.
TargetNode(tree, object_name, line_number) ==
    IF object_name # ""
    THEN FirstOf(SelectSeq(Walk(tree), LAMBDA k : tree[k].kind \in {"FunctionDef", "ClassDef"}
                                      /\ tree[k].name = object_name))
    ELSE IF line_number # 0
    THEN FirstOf(SelectSeq(Walk(tree), LAMBDA k : tree[k].kind \in {"FunctionDef", "ClassDef"}
                                      /\ tree[k].lineno = line_number))
    ELSE FirstOf(SelectSeq(Walk(tree), LAMBDA k : tree[k].kind \in DocumentableKinds
                                      /\ ~Truthy(tree[k].doc)))

FunctionDocstring(n) ==
    LET args == SelectSeq(n.args, LAMBDA a : a # "self")
    IN  <<<<"\"\"\"">>, <<n.name>>, <<>>>>
        \o (IF args # <<>> THEN <<<<"Args:">>>> ELSE <<>>)
        \o [j \in 1..Len(args) |-> <<"    ", args[j], ": Description of ", args[j]>>]
        \o <<<<>>, <<"Returns:">>, <<"    Description of return value">>, <<"\"\"\"">>>>

ClassDocstring(n) ==
    <<<<"\"\"\"">>, <<n.name, " class">>, <<>>,
      <<"Description of the class and its purpose.">>, <<"\"\"\"">>>>

ModuleDocstring(file_path) ==
    <<<<"\"\"\"">>, <<Basename(file_path)>>, <<>>,
      <<"Description of the module and its purpose.">>, <<"\"\"\"">>>>

\* generate_docstring from the parsed tree on.
SuggestDocstring(tree, file_path, object_name, line_number) ==
    LET t == TargetNode(tree, object_name, line_number)
    IN  IF t = 0
        THEN [success |-> FALSE, message |-> "No suitable target found for docstring generation"]
        ELSE IF tree[t].kind = "FunctionDef"
        THEN [success |-> TRUE, node_type |-> "function", name |-> tree[t].name,
              suggested_docstring |-> FunctionDocstring(tree[t]),
              line_number |-> tree[t].lineno]
        ELSE IF tree[t].kind = "ClassDef"
        THEN [success |-> TRUE, node_type |-> "class", name |-> tree[t].name,
              suggested_docstring |-> ClassDocstring(tree[t]),
              line_number |-> tree[t].lineno]
        ELSE [success |-> TRUE, node_type |-> "module",
              suggested_docstring |-> ModuleDocstring(file_path), line_number |-> 1]

generate_docstring(f, file_path, object_name, line_number) ==
    ExceptSuccessFalse(
        IF ReadError(f, file_path) # "" THEN Raise(f, ReadError(f, file_path))
        ELSE IF Parse(ReadText(f, file_path)) = SyntaxError THEN Raise(f, "SyntaxError")
        ELSE Return(f, JsonResult(SuggestDocstring(Parse(ReadText(f, file_path)), file_path,
                                                   object_name, line_number))))

-----------------------------------------------------------------------------
(* update_readme.  A text is the sequence of its parts; a part that is not *)
(* a line end of its own may hold "\n".                                    *)

\* os.path.basename(os.path.abspath(project_dir)): "cwd" names the working directory.
ProjectName(project_dir) == IF project_dir = Dot THEN "cwd" ELSE Basename(project_dir)

\* The line of three backquotes that opens and closes a code block.
CodeFence == "<fence>"

\* The README written when there is none: the title and the four sections.
ReadmeTemplate(project_name) ==
    <<"# ", project_name, LF, LF,
      "## Description\n\nProject description here.\n\n",
      "## Installation\n\n", CodeFence, "bash\npip install -r requirements.txt\n", CodeFence,
      "\n\n",
      "## Usage\n\nUsage instructions here.\n\n",
      "## License\n\n[MIT](https://choosealicense.com/licenses/mit/)\n">>

\* The note appended for the sections asked for.
RECURSIVE SectionItems(_)
SectionItems(sections) ==
    IF sections = <<>> THEN <<>>
    ELSE <<"- ", Head(sections), LF>> \o SectionItems(Tail(sections))

UpdatesNeeded(sections) ==
    <<LF, LF, "## Updates Needed\n\n", "The following sections need to be updated:\n\n">>
    \o SectionItems(sections)

\* sections <<>> stands for None and for the empty list: both are false.
update_readme(f, project_dir, sections) ==
    ExceptErrorOnly(
        IF ~IsDir(f, project_dir)
        THEN Return(f, JsonResult([error |-> "Directory not found"]))
        ELSE LET readme_path == Join(project_dir, DEFAULT_README_PATH)
                 readme_exists == IsFile(f, readme_path)
                 current_content == IF readme_exists THEN get_file_content(f, readme_path)
                                    ELSE <<>>
                 new_content ==
                     IF ~readme_exists \/ current_content = <<>>
                     THEN ReadmeTemplate(ProjectName(project_dir))
                     ELSE current_content
                          \o (IF sections # <<>> THEN UpdatesNeeded(sections) ELSE <<>>)
                 w == write_file_content(f, readme_path, new_content)
             IN  IF w.ok
                 THEN Return(w.fs, JsonResult([success |-> TRUE,
                                               message |-> "README updated successfully",
                                               created_new |-> ~readme_exists,
                                               path |-> readme_path]))
                 ELSE Return(w.fs, JsonResult([success |-> FALSE,
                                               message |-> "Failed to update README"])))

-----------------------------------------------------------------------------
(* The server: one tool call after another on the filesystem.              *)

\* The arguments the calls are made with.  A file is written on one of the paths or
\* on "s/", with one of the contents or with a text that cannot be encoded.
DirArgs == {Dot, <<"s">>, <<"m.py">>, <<"s", "s">>}
Contents == {<<>>, <<"x", CR, LF>>, <<"(", LF>>}
WritePaths == ArgPaths \cup {<<"s", "">>}
WriteContents == Contents \cup {<<Surrogate>>}
Patterns == {<<"*">>, <<"*.py">>, <<"**">>, <<"s">>, <<"..">>, <<"">>,
             <<"*", "*">>, <<"**", "*.py">>}

NoCall == [tool |-> "none", args |-> <<>>, result |-> TextResult(<<>>)]
NoChain == [stage |-> "none", path |-> <<>>, content |-> <<>>]

\* Whether a result is a JSON object that reports success.
Succeeded(r) == r.kind = "json" /\ "success" \in DOMAIN r.obj /\ r.obj.success = TRUE

\* chain follows create_file(p, X), then delete_file(p), then get_file(p), each directly
\* after the other and the first two successful; any other call starts over.
NextChain(c, tool, path, content, result) ==
    IF tool = "create_file" /\ Succeeded(result)
    THEN [stage |-> "created", path |-> path, content |-> content]
    ELSE IF tool = "delete_file" /\ Succeeded(result) /\ c.stage = "created" /\ c.path = path
    THEN [c EXCEPT !.stage = "deleted"]
    ELSE IF tool = "get_file" /\ c.stage = "created" /\ c.path = path
    THEN [c EXCEPT !.stage = "created_read"]
    ELSE IF tool = "get_file" /\ c.stage = "deleted" /\ c.path = path
    THEN [c EXCEPT !.stage = "deleted_read"]
    ELSE NoChain

\* The server, waiting for a request, runs a tool function on the path `path` to its end.
Called(tool, args, path, content, out) ==
    /\ fs' = out.fs
    /\ last' = [tool |-> tool, args |-> args, result |-> out.result]
    /\ chain' = NextChain(chain, tool, path, content, out.result)
    /\ UNCHANGED <<parsed, report, client, wire>>

NoReport == [error |-> "none"]
NoClient == [pc |-> "none"]
NoWire == [requests |-> <<>>, responses |-> <<>>]

\* The server waits for a request: no tool function is running.
Idle == last = NoCall

Init ==
    /\ fs = [p \in AllPaths |-> Absent]
    /\ last = NoCall
    /\ chain = NoChain
    /\ parsed = <<>>
    /\ report = NoReport
    /\ client = NoClient
    /\ wire = NoWire

ListFiles ==
    /\ Idle
    /\ \E d \in DirArgs, pat \in Patterns :
           Called("list_files", [directory |-> d, pattern |-> pat], d, <<>>, list_files(fs, d, pat))

GetFile ==
    /\ Idle
    /\ \E p \in ArgPaths :
           Called("get_file", [file_path |-> p], p, <<>>, get_file(fs, p))

UpdateFile ==
    /\ Idle
    /\ \E p \in WritePaths, c \in WriteContents :
           Called("update_file", [file_path |-> p, content |-> c], p, c, update_file(fs, p, c))

AnalyzeCode ==
    /\ Idle
    /\ \E p \in ArgPaths :
           Called("analyze_code", [file_path |-> p], p, <<>>, analyze_code(fs, p))

GenerateDocstring ==
    /\ Idle
    /\ \E p \in ArgPaths, name \in {"", "f"}, line \in {0, 1} :
           Called("generate_docstring",
                  [file_path |-> p, object_name |-> name, line_number |-> line], p, <<>>,
                  generate_docstring(fs, p, name, line))

GetProjectTree ==
    /\ Idle
    /\ \E d \in DirArgs :
           Called("get_project_tree", [directory |-> d], d, <<>>, get_project_tree(fs, d))

RunTests ==
    /\ Idle
    /\ \E d \in DirArgs, outcome \in ProcessOutcomes :
           Called("run_tests", [directory |-> d], d, <<>>, run_tests(fs, d, outcome))

LintCode ==
    /\ Idle
    /\ \E p \in ArgPaths, outcome \in ProcessOutcomes :
           Called("lint_code", [file_path |-> p], p, <<>>, lint_code(fs, p, outcome))

CreateDirectory ==
    /\ Idle
    /\ \E p \in ArgPaths :
           Called("create_directory", [path |-> p], p, <<>>, create_directory(fs, p))

DeleteFile ==
    /\ Idle
    /\ \E p \in ArgPaths :
           Called("delete_file", [path |-> p], p, <<>>, delete_file(fs, p))

DeleteDirectory ==
    /\ Idle
    /\ \E p \in ArgPaths, recursive \in BOOLEAN :
           Called("delete_directory", [path |-> p, recursive |-> recursive], p, <<>>,
                  delete_directory(fs, p, recursive))

CopyFile ==
    /\ Idle
    /\ \E src \in ArgPaths, dst \in ArgPaths :
           /\ FitsModel(fs, src, dst)
           /\ Called("copy_file", [source |-> src, destination |-> dst], src, <<>>,
                     copy_file(fs, src, dst))

CopyDirectory ==
    /\ Idle
    /\ \E src \in ArgPaths, dst \in ArgPaths :
           /\ ~IsDir(fs, src) \/ Exists(fs, dst) \/ TreeFits(fs, src, dst)
           /\ Called("copy_directory", [source |-> src, destination |-> dst], src, <<>>,
                     copy_directory(fs, src, dst))

MoveFile ==
    /\ Idle
    /\ \E src \in ArgPaths, dst \in ArgPaths :
           /\ FitsModel(fs, src, dst)
           /\ Called("move_file", [source |-> src, destination |-> dst], src, <<>>,
                     move_file(fs, src, dst))

MoveDirectory ==
    /\ Idle
    /\ \E src \in ArgPaths, dst \in ArgPaths :
           /\ FitsModel(fs, src, dst)
           /\ Called("move_directory", [source |-> src, destination |-> dst], src, <<>>,
                     move_directory(fs, src, dst))

RenameFile ==
    /\ Idle
    /\ \E src \in ArgPaths, n \in Names :
           Called("rename_file", [source |-> src, new_name |-> n], src, <<>>,
                  rename_file(fs, src, n))

RenameDirectory ==
    /\ Idle
    /\ \E src \in ArgPaths, n \in Names :
           Called("rename_directory", [source |-> src, new_name |-> n], src, <<>>,
                  rename_directory(fs, src, n))

GetFileInfo ==
    /\ Idle
    /\ \E p \in ArgPaths :
           Called("get_file_info", [path |-> p], p, <<>>, get_file_info(fs, p))

FindFiles ==
    /\ Idle
    /\ \E d \in DirArgs, pat \in Patterns, recursive \in BOOLEAN :
           Called("find_files", [directory |-> d, pattern |-> pat, recursive |-> recursive],
                  d, <<>>, find_files(fs, d, pat, recursive))

CreateFile ==
    /\ Idle
    /\ \E p \in WritePaths, c \in WriteContents :
           Called("create_file", [file_path |-> p, content |-> c], p, c, create_file(fs, p, c))

\* The result goes back to the caller and the server waits for the next request.
Respond ==
    /\ last # NoCall
    /\ last' = NoCall
    /\ chain' = IF chain.stage \in {"created_read", "deleted_read"} THEN NoChain ELSE chain
    /\ UNCHANGED <<fs, parsed, report, client, wire>>

Next ==
    \/ Respond
    \/ ListFiles
    \/ GetFile
    \/ UpdateFile
    \/ AnalyzeCode
    \/ GenerateDocstring
    \/ GetProjectTree
    \/ RunTests
    \/ LintCode
    \/ CreateDirectory
    \/ DeleteFile
    \/ DeleteDirectory
    \/ CopyFile
    \/ CopyDirectory
    \/ MoveFile
    \/ MoveDirectory
    \/ RenameFile
    \/ RenameDirectory
    \/ GetFileInfo
    \/ FindFiles
    \/ CreateFile

Spec == Init /\ [][Next]_vars

TypeOK == WellFormed(fs)

-----------------------------------------------------------------------------
(* Properties of the server.                                               *)

\* A result the caller can tell from a success: a JSON object whose success field is
\* false, or one that carries an error field.
MarkedFailure(r) ==
    /\ r.kind = "json"
    /\ \/ ("success" \in DOMAIN r.obj /\ r.obj.success = FALSE)
       \/ "error" \in DOMAIN r.obj

\* C1: when create_file(path, X) returned success and get_file(path) is the next call,
\* get_file returns exactly the text X.
C1_RoundTrip == chain.stage = "created_read" => last.result = TextResult(chain.content)

\* What does hold of the round trip: the text comes back with every line ending, "\r\n"
\* or "\r", turned into "\n".
C1_RoundTripTranslated ==
    chain.stage = "created_read" => last.result = TextResult(TranslateRead(chain.content))

\* C2: when create_file(path, X) and then delete_file(path) returned success and
\* get_file(path) is the next call, the file no longer exists and the result of get_file
\* is marked as a failure, not handed back as text.
C2_DeletedThenNotFound ==
    chain.stage = "deleted_read" => (~Exists(fs, chain.path) /\ MarkedFailure(last.result))

\* The half of C2 that does hold: the deleted file is gone.
C2_DeletedIsGone == chain.stage = "deleted_read" => ~Exists(fs, chain.path)

\* C3: the result of every tool call is one structured record with a success indicator.
C3_SuccessIndicator ==
    last # NoCall => (last.result.kind = "json" /\ "success" \in DOMAIN last.result.obj)

\* A call of a tool on a path that does not exist, which the tool left that way.
DirectoryTools == {"list_files", "get_project_tree", "run_tests", "find_files"}
OnMissingPath ==
    \/ last.tool = "get_file" /\ ~Exists(fs, last.args.file_path)
    \/ last.tool = "analyze_code" /\ ~Exists(fs, last.args.file_path)
    \/ last.tool \in {"get_file_info", "delete_file", "delete_directory"}
           /\ ~Exists(fs, last.args.path)
    \/ last.tool \in DirectoryTools /\ ~Exists(fs, last.args.directory)

\* C4: a tool call that fails returns a record with a message (the field message or
\* error) and a success indicator that is false; stated for the calls on a missing path.
C4_FailureShape ==
    OnMissingPath =>
        /\ last.result.kind = "json"
        /\ "success" \in DOMAIN last.result.obj
        /\ last.result.obj.success = FALSE
        /\ ("message" \in DOMAIN last.result.obj \/ "error" \in DOMAIN last.result.obj)

\* C5: no tool call lets an exception leave the tool function: every call returns a text
\* or a JSON record, and the server goes on to the next request.
C5_NoFaultPropagates ==
    /\ last.result.kind \in {"text", "json"}
    /\ last # NoCall => ENABLED Respond

\* A call whose operating-system operation raised, answered by a failure record.
C5_Witness ==
    /\ last.tool = "delete_directory"
    /\ last.result = JsonResult([success |-> FALSE, error |-> "OSError: Directory not empty"])

\* A file tool called on a directory, or a directory tool called on a regular file, in
\* the filesystem f.
KindMismatch(f, tool, args) ==
    \/ tool = "delete_file" /\ IsDir(f, args.path)
    \/ tool \in {"copy_file", "move_file", "rename_file"} /\ IsDir(f, args.source)
    \/ tool = "delete_directory" /\ IsFile(f, args.path)
    \/ tool \in {"copy_directory", "move_directory", "rename_directory"}
           /\ IsFile(f, args.source)

\* C7: delete_file, copy_file, move_file and rename_file called on a directory, and
\* delete_directory, copy_directory, move_directory and rename_directory called on a
\* regular file, return a failure result and leave the filesystem as it was.
C7_KindChecking ==
    [][(last = NoCall /\ last' # NoCall /\ KindMismatch(fs, last'.tool, last'.args))
          => (fs' = fs /\ last'.result.kind = "json"
              /\ "success" \in DOMAIN last'.result.obj /\ last'.result.obj.success = FALSE)]_vars

\* move_file was called on a directory that holds an entry.
C7_Witness ==
    /\ last.tool = "move_file"
    /\ IsDir(fs, last.args.source)
    /\ ListDir(fs, last.args.source) # {}
    /\ last.args.destination # last.args.source

\* Whether the match m is an entry of the directory itself, not of a directory below it
\* and not the directory or its parent.
DirectChild(m, directory) ==
    /\ Len(m) = Len(NodeOf(directory)) + 1
    /\ IsPrefix(NodeOf(directory), m)
    /\ m[Len(m)] \in Names

\* Whether the match m lies in a subdirectory of the directory.
Nested(m, directory) == Len(SelectSeq(m, LAMBDA c : c \in Names)) > Len(NodeOf(directory)) + 1

\* C8: find_files with recursive = false never returns an entry of a nested subdirectory
\* of the directory, whatever the pattern.
C8_NoNestedMatch ==
    (last.tool = "find_files" /\ ~last.args.recursive /\ Succeeded(last.result))
        => \A m \in last.result.obj.matches : ~Nested(m, last.args.directory)

\* What does hold: a pattern that is one file-name pattern, without a separator and not
\* "" or "..", matches direct children only.
C8_PlainPatternDirectChild ==
    (last.tool = "find_files" /\ ~last.args.recursive /\ Succeeded(last.result)
       /\ Len(last.args.pattern) = 1 /\ last.args.pattern[1] \notin {"", ".."})
        => \A m \in last.result.obj.matches : DirectChild(m, last.args.directory)

-----------------------------------------------------------------------------
(* The analyzer on the syntax trees of at most MaxNodes nodes.             *)

\* What ast.get_docstring can return: None, the empty text, a text.
Docs == {NoneDoc, Doc(""), Doc("d")}

\* The function headers that occur: def f(), def f(self, a) and def g(a, *, b).
Signatures ==
    {[name |-> "f", args |-> <<>>, kwonlyargs |-> <<>>],
     [name |-> "f", args |-> <<"self", "a">>, kwonlyargs |-> <<>>],
     [name |-> "g", args |-> <<"a">>, kwonlyargs |-> <<"b">>]}

\* The last node of a tree and the nodes that enclose it.
RECURSIVE Enclosing(_, _)
Enclosing(t, i) == IF i = 0 THEN {} ELSE {i} \cup Enclosing(t, t[i].parent)

\* The statements that can follow the nodes of t in the source: each stands on the next
\* line, in the body of a node that is still open, indented by four columns a level.
NextStatements(t) ==
    LET line == Len(t) + Cardinality({i \in 1..Len(t) : t[i].doc.has})
        Under(p, kind, name, doc, names) ==
            Node(kind, p, name, line, IF p = 1 THEN 0 ELSE t[p].col_offset + 4, doc, <<>>,
                 IF kind = "ImportFrom" THEN "m" ELSE "", names)
        Def(p, sig, doc) ==
            [Under(p, "FunctionDef", sig.name, doc, <<>>)
                EXCEPT !.args = sig.args, !.kwonlyargs = sig.kwonlyargs]
    IN  UNION {
            {Def(p, sig, doc) : sig \in Signatures, doc \in Docs}
            \cup {Under(p, "AsyncFunctionDef", "f", doc, <<>>) : doc \in {NoneDoc, Doc("d")}}
            \cup {Under(p, "ClassDef", "C", doc, <<>>) : doc \in Docs}
            \cup {Under(p, "If", "", NoneDoc, <<>>),
                  Under(p, "Import", "", NoneDoc, <<"a", "b">>),
                  Under(p, "ImportFrom", "", NoneDoc, <<"x", "y">>)}
            : p \in {i \in Enclosing(t, Len(t)) : t[i].kind \in BlockKinds}}

\* A source text with a line for every statement and every docstring of the tree.
SourceOf(t) ==
    LET lines == Len(t) - 1 + Cardinality({i \in 1..Len(t) : t[i].doc.has})
    IN  [i \in 1..(2 * lines) |-> IF i % 2 = 1 THEN "x" ELSE LF]

InitAnalyzer ==
    /\ fs = [p \in AllPaths |-> Absent]
    /\ last = NoCall
    /\ chain = NoChain
    /\ parsed \in {<<ModuleNode(doc)>> : doc \in Docs}
    /\ report = NoReport
    /\ client = NoClient
    /\ wire = NoWire

\* analyze_python_file once the file was read and parsed into the tree.
Analyze ==
    /\ report = NoReport
    /\ report' = AnalysisReport(<<"m.py">>, SourceOf(parsed), parsed)
    /\ UNCHANGED <<fs, last, chain, parsed, client, wire>>

\* The file analyzed holds one more statement.
AddStatement ==
    /\ Idle
    /\ report = NoReport
    /\ Len(parsed) < MaxNodes
    /\ \E s \in NextStatements(parsed) : parsed' = Append(parsed, s)
    /\ UNCHANGED <<fs, last, chain, report, client, wire>>

NextAnalyzer == AddStatement \/ Analyze

SpecAnalyzer == InitAnalyzer /\ [][NextAnalyzer]_vars

\* The object_name and line_number generate_docstring is called with: neither, a line,
\* a name, both; "h" names nothing and line 9 lies beyond the file.
SuggestArgs ==
    {<<"", 0>>, <<"", 2>>, <<"", 3>>, <<"", 9>>,
     <<"f", 0>>, <<"g", 0>>, <<"C", 0>>, <<"h", 0>>, <<"h", 2>>, <<"f", 3>>}

\* generate_docstring once the file was read and parsed into the tree.
Suggest ==
    /\ Idle
    /\ \E a \in SuggestArgs :
           last' = [tool |-> "generate_docstring",
                    args |-> [file_path |-> <<"m.py">>, object_name |-> a[1],
                              line_number |-> a[2]],
                    result |-> JsonResult(SuggestDocstring(parsed, <<"m.py">>, a[1], a[2]))]
    /\ UNCHANGED <<fs, chain, parsed, report, client, wire>>

NextDocstring == AddStatement \/ Suggest

SpecDocstring == InitAnalyzer /\ [][NextDocstring]_vars

\* C9: in an analysis report 0 <= docstring_count <= nodes_requiring_docstrings, the
\* coverage is docstring_count / nodes_requiring_docstrings * 100 and lies between 0 and
\* 100, and it is 0 when nodes_requiring_docstrings is 0.
C9_CoverageBounds ==
    report # NoReport =>
        LET count == report.docstring_count
            nodes == report.nodes_requiring_docstrings
            coverage == report.docstring_coverage
        IN  /\ 0 <= count /\ count <= nodes
            /\ coverage.den > 0
            /\ coverage.num * nodes = count * 100 * coverage.den
            /\ 0 <= coverage.num /\ coverage.num <= 100 * coverage.den
            /\ nodes = 0 => coverage.num = 0

\* A report of a tree in which some, not all, of the counted nodes have a docstring.
C9_Witness ==
    /\ report # NoReport
    /\ 0 < report.docstring_count
    /\ report.docstring_count < report.nodes_requiring_docstrings

\* The module, the classes and the functions of a tree.
Declarations(t) ==
    {i \in 1..Len(t) : t[i].kind \in {"Module", "ClassDef", "FunctionDef", "AsyncFunctionDef"}}

\* C10: the coverage is exactly 0 when the file has no module docstring, no class and no
\* function, and exactly 100 when the module and every class and function carry a
\* documentation string.
C10_ZeroAndFull ==
    report # NoReport =>
        /\ (Declarations(parsed) = {1} /\ ~parsed[1].doc.has)
               => report.docstring_coverage.num = 0
        /\ (\A i \in Declarations(parsed) : parsed[i].doc.has)
               => report.docstring_coverage.num = 100 * report.docstring_coverage.den

\* What does hold: 0 without declarations, and 100 when every docstring is a non-empty
\* text.
C10_ZeroAndFullNonEmpty ==
    report # NoReport =>
        /\ (Declarations(parsed) = {1} /\ ~parsed[1].doc.has)
               => report.docstring_coverage.num = 0
        /\ (\A i \in Declarations(parsed) : Truthy(parsed[i].doc))
               => report.docstring_coverage.num = 100 * report.docstring_coverage.den

-----------------------------------------------------------------------------
(* The client's analyze_project against the server, over the stdio         *)
(* transport.  A tool function holds no await: the server runs it to its   *)
(* end in one step.                                                        *)

\* What a project file holds: a text that parses, and one that does not.
ProjectTexts == {<<>>, <<"(", LF>>}

\* The directories analyze_project is called on.
ProjectDirs == {Dot, <<"s">>}

\* (without the await: the next call is issued while the previous one is outstanding)
MayCall_NoAwait(c, line, previous) == c.pc \in {line, previous}

\* The client reaches the call on `line` only when the await of the call before it,
\* where the coroutine was suspended at `previous`, has returned.
MayCall(c, line, previous) == c.pc = line

\* session.call_tool(tool, args): the request goes out.
Send(w, tool, args) == [w EXCEPT !.requests = Append(@, [tool |-> tool, args |-> args])]

\* json.loads(result.content[0].text) of the result that arrived first
Received(w) == Head(w.responses).obj

\* The lists glob.glob can return for a set of matches: it fixes no order.
Orders(S) ==
    {o \in [1..Cardinality(S) -> S] : \A i, j \in 1..Cardinality(S) : i # j => o[i] # o[j]}

\* (the loop is left at the first analysis that reports an error)
LoopGoesOn_UntilError(files, analyses) ==
    /\ Len(analyses) < Len(files)
    /\ \A j \in 1..Len(analyses) : "error" \notin DOMAIN analyses[j]

\* for file_path in files: whether a file is left once `analyses` were appended.
LoopGoesOn(files, analyses) == Len(analyses) < Len(files)

InitClient ==
    /\ fs = [p \in AllPaths |-> Absent]
    /\ last = NoCall
    /\ chain = NoChain
    /\ parsed = <<>>
    /\ report = NoReport
    /\ \E d \in ProjectDirs :
           client = [pc |-> "line71", project_dir |-> d, files |-> <<>>, analyses |-> <<>>]
    /\ wire = NoWire

\* Before the client starts, the disk holds one more file or directory.
ProjectHolds ==
    /\ client.pc = "line71"
    /\ \E p \in ArgPaths, e \in {DirEntry} \cup {FileEntry(t) : t \in ProjectTexts} :
           /\ ~Exists(fs, p)
           /\ ParentIsDir(fs, p)
           /\ fs' = [fs EXCEPT ![p] = e]
    /\ UNCHANGED <<last, chain, parsed, report, client, wire>>

\* line 71: await self.session.call_tool("get_project_tree", {"directory": project_dir})
CallGetProjectTree ==
    /\ MayCall(client, "line71", "line71")
    /\ wire' = Send(wire, "get_project_tree", [directory |-> client.project_dir])
    /\ client' = [client EXCEPT !.pc = "await71"]
    /\ UNCHANGED <<fs, last, chain, parsed, report>>

\* lines 71-72: the result arrives and the coroutine goes on.
ReturnGetProjectTree ==
    /\ client.pc = "await71"
    /\ wire.responses # <<>>
    /\ wire' = [wire EXCEPT !.responses = Tail(@)]
    /\ client' = [client EXCEPT !.pc = "line75"]
    /\ UNCHANGED <<fs, last, chain, parsed, report>>

\* lines 75-78: await self.session.call_tool("list_files", ...)
CallListFiles ==
    /\ MayCall(client, "line75", "await71")
    /\ wire' = Send(wire, "list_files",
                    [directory |-> client.project_dir, pattern |-> <<"**", "*.py">>])
    /\ client' = [client EXCEPT !.pc = "await75"]
    /\ UNCHANGED <<fs, last, chain, parsed, report>>

\* lines 79-83: files_data.get("files", [])[:5]; the model's glob finds fewer than five.
ReturnListFiles ==
    /\ client.pc = "await75"
    /\ wire.responses # <<>>
    /\ \E files \in Orders(Get(Received(wire), "files", {})) :
           client' = [client EXCEPT !.files = files,
                                    !.pc = IF LoopGoesOn(files, <<>>) THEN "line84"
                                           ELSE "line89"]
    /\ wire' = [wire EXCEPT !.responses = Tail(@)]
    /\ UNCHANGED <<fs, last, chain, parsed, report>>

\* line 84: await self.session.call_tool("analyze_code", {"file_path": file_path}), for
\* the next file of the list.
CallAnalyzeCode ==
    /\ MayCall(client, "line84", "await84")
    /\ LoopGoesOn(client.files, client.analyses)
    /\ LET file_path == client.files[Len(client.analyses) + 1]
       IN  wire' = Send(wire, "analyze_code", [file_path |-> file_path])
    /\ client' = [client EXCEPT !.pc = "await84"]
    /\ UNCHANGED <<fs, last, chain, parsed, report>>

\* lines 85-86: analyses.append(analysis), and on to the next file or out of the loop.
ReturnAnalyzeCode ==
    /\ client.pc = "await84"
    /\ wire.responses # <<>>
    /\ wire' = [wire EXCEPT !.responses = Tail(@)]
    /\ LET analyses == Append(client.analyses, Received(wire))
       IN  client' = [client EXCEPT !.analyses = analyses,
                                    !.pc = IF LoopGoesOn(client.files, analyses)
                                           THEN "line84" ELSE "line89"]
    /\ UNCHANGED <<fs, last, chain, parsed, report>>

\* The tool function a request names, run on its arguments.
Dispatch(f, request) ==
    IF request.tool = "get_project_tree" THEN get_project_tree(f, request.args.directory)
    ELSE IF request.tool = "list_files"
    THEN list_files(f, request.args.directory, request.args.pattern)
    ELSE IF request.tool = "get_file" THEN get_file(f, request.args.file_path)
    ELSE IF request.tool = "update_file"
    THEN update_file(f, request.args.file_path, request.args.content)
    ELSE IF request.tool = "create_file"
    THEN create_file(f, request.args.file_path, request.args.content)
    ELSE IF request.tool = "generate_docstring"
    THEN generate_docstring(f, request.args.file_path, request.args.object_name,
                            request.args.line_number)
    ELSE analyze_code(f, request.args.file_path)

\* The server takes the oldest request, runs the tool to its end and writes the result.
Serve ==
    /\ wire.requests # <<>>
    /\ LET out == Dispatch(fs, Head(wire.requests))
       IN  /\ fs' = out.fs
           /\ wire' = [requests |-> Tail(wire.requests),
                       responses |-> Append(wire.responses, out.result)]
    /\ UNCHANGED <<last, chain, parsed, report, client>>

NextClient ==
    \/ ProjectHolds
    \/ CallGetProjectTree
    \/ ReturnGetProjectTree
    \/ CallListFiles
    \/ ReturnListFiles
    \/ CallAnalyzeCode
    \/ ReturnAnalyzeCode
    \/ Serve

SpecClient == InitClient /\ [][NextClient]_vars

\* C6: tool calls are never interleaved: at most one call is outstanding (sent and not
\* yet answered and received) at any moment, exactly while the client is suspended in an
\* await, so that get_project_tree, list_files and each analyze_code of analyze_project
\* run one after another.
C6_OneCallAtATime ==
    /\ Len(wire.requests) + Len(wire.responses) <= 1
    /\ (Len(wire.requests) + Len(wire.responses) = 1)
           <=> client.pc \in {"await71", "await75", "await84"}

\* The second analyze_code call of one run is with the server.
C6_Witness ==
    /\ client.pc = "await84"
    /\ Len(client.analyses) = 1
    /\ wire.requests # <<>>

\* Whether analyze_code cannot read the file, or reads a text that does not parse.
Unanalyzable(f, file_path) ==
    \/ ~IsFile(f, file_path)
    \/ Parse(ReadText(f, file_path)) = SyntaxError

-----------------------------------------------------------------------------
(* Properties of the analysis report, stated on the tree itself.           *)

\* The declarations of functions: def and async def.
FunctionLike == {"FunctionDef", "AsyncFunctionDef"}

\* The nodes of the set S in source order.
InSourceOrder(t, S) == SelectSeq([k \in 1..Len(t) |-> k], LAMBDA k : k \in S)

\* The line numbers of a list of report entries, and of a list of nodes.
EntryLines(entries) == [j \in 1..Len(entries) |-> entries[j].lineno]
NodeLines(t, nodes) == [j \in 1..Len(nodes) |-> t[nodes[j]].lineno]

\* The statement that starts on a line.
NodeAtLine(t, line) == CHOOSE i \in 1..Len(t) : t[i].lineno = line

\* C11: nodes_requiring_docstrings is 1 for the module plus the number of classes plus
\* the number of functions anywhere in the tree, and docstring_count is the number of
\* those nodes whose documentation string is not absent.
C11_Counts ==
    report # NoReport =>
        /\ report.nodes_requiring_docstrings = Cardinality(Declarations(parsed))
        /\ report.docstring_count =
               Cardinality({i \in Declarations(parsed) : parsed[i].doc.has})

\* What does hold: the counts are over the module, the classes and the def functions,
\* async def left out, and a docstring counts when it is a non-empty text.
C11_CountsDefNonEmpty ==
    report # NoReport =>
        LET counted == {i \in 1..Len(parsed) : parsed[i].kind \in DocumentableKinds}
        IN  /\ report.nodes_requiring_docstrings = Cardinality(counted)
            /\ report.docstring_count =
                   Cardinality({i \in counted : Truthy(parsed[i].doc)})

\* C12: the report holds one entry for every class of the file, and the method list of
\* the entry holds exactly the functions declared directly in the body of the class, in
\* source order.
C12_Methods ==
    report # NoReport =>
        LET classes == {i \in 1..Len(parsed) : parsed[i].kind = "ClassDef"}
        IN  /\ Len(report.classes) = Cardinality(classes)
            /\ \A c \in classes :
                   \E j \in 1..Len(report.classes) :
                       /\ report.classes[j].lineno = parsed[c].lineno
                       /\ EntryLines(report.classes[j].methods) =
                              NodeLines(parsed, InSourceOrder(parsed,
                                  {k \in 1..Len(parsed) : parsed[k].parent = c
                                       /\ parsed[k].kind \in FunctionLike}))

\* What does hold: the same for the def functions of the body, async def left out.
C12_MethodsDef ==
    report # NoReport =>
        LET classes == {i \in 1..Len(parsed) : parsed[i].kind = "ClassDef"}
        IN  /\ Len(report.classes) = Cardinality(classes)
            /\ \A c \in classes :
                   \E j \in 1..Len(report.classes) :
                       /\ report.classes[j].lineno = parsed[c].lineno
                       /\ EntryLines(report.classes[j].methods) =
                              NodeLines(parsed, InSourceOrder(parsed,
                                  {k \in 1..Len(parsed) : parsed[k].parent = c
                                       /\ parsed[k].kind = "FunctionDef"}))

\* C13: the function list holds exactly the functions declared at module level, each
\* once: no method, no function nested in a function, a method or a block.
C13_TopLevelFunctions ==
    report # NoReport =>
        EntryLines(report.functions) =
            NodeLines(parsed, InSourceOrder(parsed,
                {k \in 1..Len(parsed) : parsed[k].parent = 1
                     /\ parsed[k].kind \in FunctionLike}))

\* What does hold: the same for the def functions of the module, async def left out.
C13_TopLevelDef ==
    report # NoReport =>
        EntryLines(report.functions) =
            NodeLines(parsed, InSourceOrder(parsed,
                {k \in 1..Len(parsed) : parsed[k].parent = 1
                     /\ parsed[k].kind = "FunctionDef"}))

\* Whether a list of line numbers starts at 1 or later and never goes down.
NonDecreasing(lines) ==
    /\ \A j \in 1..Len(lines) : lines[j] >= 1
    /\ \A j \in 1..(Len(lines) - 1) : lines[j] <= lines[j + 1]

\* C14: the line numbers of a report are 1-based, and the class list, the function list
\* and every method list are in non-decreasing order of line number.
C14_LineOrder ==
    report # NoReport =>
        /\ NonDecreasing(EntryLines(report.classes))
        /\ NonDecreasing(EntryLines(report.functions))
        /\ \A j \in 1..Len(report.classes) :
               NonDecreasing(EntryLines(report.classes[j].methods))

\* What does hold: the function list and the method lists are in order; the class list
\* is in order when no class is nested.
C14_LineOrderFlat ==
    report # NoReport =>
        /\ NonDecreasing(EntryLines(report.functions))
        /\ \A j \in 1..Len(report.classes) :
               NonDecreasing(EntryLines(report.classes[j].methods))
        /\ (\A i \in 1..Len(parsed) : parsed[i].kind = "ClassDef" => parsed[i].parent = 1)
               => NonDecreasing(EntryLines(report.classes))

\* The entries of a report that describe a declaration: classes, functions, methods.
RECURSIVE MethodEntries(_)
MethodEntries(classes) ==
    IF classes = <<>> THEN {}
    ELSE {Head(classes).methods[m] : m \in 1..Len(Head(classes).methods)}
         \cup MethodEntries(Tail(classes))
DeclarationEntries(r) ==
    {r.classes[j] : j \in 1..Len(r.classes)}
    \cup {r.functions[j] : j \in 1..Len(r.functions)}
    \cup MethodEntries(r.classes)

\* C15: a declaration with an empty documentation string is reported with another
\* docstring value than a declaration without one.
C15_AbsentIsNotEmpty ==
    report # NoReport =>
        \A e \in DeclarationEntries(report) :
            parsed[NodeAtLine(parsed, e.lineno)].doc = Doc("")
                => e.docstring # DocOrSentinel(NoneDoc)

\* What does hold: a declaration with a non-empty documentation string other than the
\* text "No docstring" is reported with that text, and one without with "No docstring".
C15_NonEmptyIsReported ==
    report # NoReport =>
        \A e \in DeclarationEntries(report) :
            LET doc == parsed[NodeAtLine(parsed, e.lineno)].doc
            IN  /\ Truthy(doc) => e.docstring = doc.text
                /\ ~doc.has => e.docstring = "No docstring"

\* The imported symbols of a tree: the pairs of an import statement and the position of
\* a symbol in it.
ImportedSymbols(t) ==
    {s \in (1..Len(t)) \X (1..MaxNodes) :
        t[s[1]].kind \in {"Import", "ImportFrom"} /\ s[2] <= Len(t[s[1]].names)}

\* The entry the spec gives to an imported symbol.
SymbolEntry(t, s) ==
    IF t[s[1]].kind = "Import"
    THEN [type |-> "import", name |-> t[s[1]].names[s[2]]]
    ELSE [type |-> "from", module |-> t[s[1]].module, name |-> t[s[1]].names[s[2]]]

\* C20: the import list has one entry for every imported symbol: an "import" entry with
\* the name for each symbol of an import statement, a "from" entry with the module and
\* the name for each symbol of a from-import, and the entries of one statement stand
\* together in the order of its symbols.
C20_ImportEntries ==
    report # NoReport =>
        LET imports == report.imports
            symbols == ImportedSymbols(parsed)
        IN  /\ Len(imports) = Cardinality(symbols)
            /\ \A s \in symbols :
                   Cardinality({j \in 1..Len(imports) : imports[j] = SymbolEntry(parsed, s)})
                     = Cardinality({u \in symbols :
                                      SymbolEntry(parsed, u) = SymbolEntry(parsed, s)})
            /\ \A i \in {s[1] : s \in symbols} :
                   \E o \in 0..Len(imports) :
                       \A j \in 1..Len(parsed[i].names) :
                           /\ o + j <= Len(imports)
                           /\ imports[o + j] = SymbolEntry(parsed, <<i, j>>)

\* The report of a file with an import statement and a from-import, of two symbols each,
\* one of them inside a function or a class.
C20_Witness ==
    /\ report # NoReport
    /\ \E i, k \in 1..Len(parsed) :
          /\ parsed[i].kind = "Import" /\ parsed[k].kind = "ImportFrom"
          /\ Len(parsed[i].names) = 2 /\ Len(parsed[k].names) = 2
          /\ parsed[i].parent # 1
    /\ Len(report.imports) = 4

-----------------------------------------------------------------------------
(* Properties of generate_docstring, stated on the tree itself.            *)

\* The node a successful result names: the module, or the statement on its line.
ResultTarget(t, result) ==
    IF result.node_type = "module" THEN 1 ELSE NodeAtLine(t, result.line_number)

\* A call of generate_docstring with neither a name nor a line.
NothingGiven(call) ==
    /\ call.tool = "generate_docstring"
    /\ call.args.object_name = "" /\ call.args.line_number = 0

\* C17: generate_docstring called with neither a name nor a line selects the first
\* declaration in source order (pre-order: a class, then its members, then what follows
\* it) among the module, the classes and the functions without a docstring.  Stated for
\* def functions and with an empty docstring taken as none, which is what the code looks
\* for.
C17_FirstInSourceOrder ==
    (NothingGiven(last) /\ Succeeded(last.result)) =>
        LET undocumented == {i \in 1..Len(parsed) : /\ parsed[i].kind \in DocumentableKinds
                                                    /\ ~Truthy(parsed[i].doc)}
        IN  \A i \in undocumented : ResultTarget(parsed, last.result.obj) <= i

\* What does hold: the node selected is undocumented, and no undocumented declaration
\* lies at a lesser nesting depth, nor earlier in the source at the same depth.
C17_FirstBreadthFirst ==
    (NothingGiven(last) /\ Succeeded(last.result)) =>
        LET undocumented == {i \in 1..Len(parsed) : /\ parsed[i].kind \in DocumentableKinds
                                                    /\ ~Truthy(parsed[i].doc)}
            depth(i) == Cardinality(Enclosing(parsed, i))
            target == ResultTarget(parsed, last.result.obj)
        IN  /\ target \in undocumented
            /\ \A i \in undocumented :
                   \/ depth(target) < depth(i)
                   \/ depth(target) = depth(i) /\ target <= i

\* Whether the spec has no target for the arguments: the name is that of no class or
\* function, the line that of no declaration, or nothing is given and the module, every
\* class and every function has a docstring (`documented` holds the nodes that have).
NoTargetFor(t, args, documented) ==
    IF args.object_name # ""
    THEN \A i \in Declarations(t) \ {1} : t[i].name # args.object_name
    ELSE IF args.line_number # 0
    THEN \A i \in Declarations(t) \ {1} : t[i].lineno # args.line_number
    ELSE Declarations(t) \subseteq documented

\* The failure result: success false and a message, returned and not raised.
FailureWithMessage(r) ==
    /\ r.kind = "json"
    /\ "success" \in DOMAIN r.obj /\ r.obj.success = FALSE
    /\ "message" \in DOMAIN r.obj

\* C18: generate_docstring returns a result with success false and a message, and raises
\* nothing, whenever the name given matches no class or function, the line given
\* matches no declaration, or neither is given and every declaration has a docstring.
C18_NoTargetFails ==
    (last.tool = "generate_docstring"
       /\ NoTargetFor(parsed, last.args, {i \in 1..Len(parsed) : parsed[i].doc.has}))
        => FailureWithMessage(last.result)

\* What does hold: the same, when every docstring there is is a non-empty text.
C18_NoTargetFailsNonEmpty ==
    (last.tool = "generate_docstring"
       /\ NoTargetFor(parsed, last.args, {i \in 1..Len(parsed) : Truthy(parsed[i].doc)}))
        => FailureWithMessage(last.result)

\* The parameter lines of a suggested docstring, and the places of its return line.
ParameterLines(docstring) ==
    SelectSeq(docstring, LAMBDA l : Len(l) = 4 /\ l[1] = "    " /\ l[3] = ": Description of ")
ReturnLines(docstring) ==
    {j \in 1..Len(docstring) : docstring[j] = <<"    Description of return value">>}

\* The line of the parameter a.
ParameterLine(a) == <<"    ", a, ": Description of ", a>>

\* The parameters a function declares, without the instance receiver: the first
\* parameter, named self, of a function declared in a class body.
DeclaredParameters(t, i) ==
    LET positional ==
            IF t[t[i].parent].kind = "ClassDef" /\ t[i].args # <<>> /\ t[i].args[1] = "self"
            THEN Tail(t[i].args) ELSE t[i].args
    IN  positional \o t[i].kwonlyargs

\* C19: the docstring suggested for a function holds one parameter line for every
\* parameter the function declares other than the instance receiver, in the order of
\* declaration, followed by one return line; for a function without parameters it holds
\* no parameter line, and the call succeeds.
C19_ParameterLines ==
    (last.tool = "generate_docstring" /\ Succeeded(last.result)
       /\ last.result.obj.node_type = "function") =>
        LET docstring == last.result.obj.suggested_docstring
            declared == DeclaredParameters(parsed, ResultTarget(parsed, last.result.obj))
        IN  /\ ParameterLines(docstring)
                 = [j \in 1..Len(declared) |-> ParameterLine(declared[j])]
            /\ Cardinality(ReturnLines(docstring)) = 1
            /\ \A r \in ReturnLines(docstring), j \in 1..Len(docstring) :
                   docstring[j] \in {ParameterLine(a) : a \in {"self", "a", "b"}} => j < r

\* What does hold: one line for every positional parameter that is not named self, in
\* order, then one return line; none for a function without positional parameters.
C19_PositionalNotSelf ==
    (last.tool = "generate_docstring" /\ Succeeded(last.result)
       /\ last.result.obj.node_type = "function") =>
        LET docstring == last.result.obj.suggested_docstring
            n == parsed[ResultTarget(parsed, last.result.obj)]
            listed == SelectSeq(n.args, LAMBDA a : a # "self")
        IN  /\ ParameterLines(docstring)
                 = [j \in 1..Len(listed) |-> ParameterLine(listed[j])]
            /\ Cardinality(ReturnLines(docstring)) = 1
            /\ \A r \in ReturnLines(docstring), j \in 1..Len(docstring) :
                   docstring[j] \in {ParameterLine(a) : a \in {"self", "a", "b"}} => j < r
            /\ n.args = <<>> => ParameterLines(docstring) = <<>>

-----------------------------------------------------------------------------
(* Properties of create_file.                                              *)

-----------------------------------------------------------------------------
(* update_readme on the working directory and on the directory s.          *)

\* Longest README, in parts, that update_readme is still called on.
MaxReadmeLen == 12

\* What a README holds before the first call: nothing, a line, a line that ends in
\* "\r\n", a line that is not UTF-8.
ReadmeTexts == {<<>>, <<"x", LF>>, <<"x", CR, LF>>, <<BadByte, LF>>}

\* The sections argument: left out, one section, two.
SectionArgs == {<<>>, <<"Usage">>, <<"Usage", "API">>}

ReadmePaths == {<<DEFAULT_README_PATH>>, <<"s", DEFAULT_README_PATH>>}

InitReadme ==
    /\ fs = [p \in AllPaths |-> Absent]
    /\ last = NoCall
    /\ chain = NoChain
    /\ parsed = <<>>
    /\ report = NoReport
    /\ client = NoClient
    /\ wire = NoWire

\* Between two calls the disk comes to hold the directory s, or the file m.py, or a
\* README: a file or a directory of that name.
ReadmeHolds ==
    /\ Idle
    /\ \E p \in ReadmePaths \cup {<<"s">>, <<"m.py">>} :
           /\ ~Exists(fs, p)
           /\ ParentIsDir(fs, p)
           /\ \E e \in IF p = <<"m.py">> THEN {FileEntry(<<>>)}
                        ELSE IF p = <<"s">> THEN {DirEntry}
                        ELSE {DirEntry} \cup {FileEntry(t) : t \in ReadmeTexts} :
                  fs' = [fs EXCEPT ![p] = e]
    /\ UNCHANGED <<last, chain, parsed, report, client, wire>>

UpdateReadme ==
    /\ Idle
    /\ \E project_dir \in {Dot, <<"s">>, <<"m.py">>}, sections \in SectionArgs :
           /\ IsFile(fs, Join(project_dir, DEFAULT_README_PATH))
                  => Len(fs[Join(project_dir, DEFAULT_README_PATH)].data) <= MaxReadmeLen
           /\ Called("update_readme", [project_dir |-> project_dir, sections |-> sections],
                     project_dir, <<>>, update_readme(fs, project_dir, sections))

NextReadme == ReadmeHolds \/ UpdateReadme \/ Respond

SpecReadme == InitReadme /\ [][NextReadme]_vars

\* A call of update_readme on a directory, and the path of its README.
ReadmeOf(call) == Join(call.args.project_dir, DEFAULT_README_PATH)
UpdatesReadme(call, f) == call.tool = "update_readme" /\ IsDir(f, call.args.project_dir)

\* C22: update_readme on a directory without README.md writes the templated README,
\* whose title is the directory name, and reports created_new true; on a directory with
\* a README.md it keeps the text there is and appends the note "Updates Needed" for the
\* sections given.
C22_TemplateOrNote ==
    [][(last = NoCall /\ UpdatesReadme(last', fs)) =>
          LET readme == ReadmeOf(last')
          IN  /\ ~Exists(fs, readme) =>
                     /\ Succeeded(last'.result) /\ last'.result.obj.created_new = TRUE
                     /\ fs'[readme] =
                            FileEntry(ReadmeTemplate(ProjectName(last'.args.project_dir)))
              /\ (IsFile(fs, readme) /\ last'.args.sections # <<>>) =>
                     /\ Succeeded(last'.result) /\ last'.result.obj.created_new = FALSE
                     /\ TranslateRead(fs'[readme].data)
                            = TranslateRead(fs[readme].data)
                              \o UpdatesNeeded(last'.args.sections)]_vars

\* What does hold: the template when there is no README.md, and the note after the text
\* when the README.md is not empty and is UTF-8.
C22_TemplateOrNoteReadable ==
    [][(last = NoCall /\ UpdatesReadme(last', fs)) =>
          LET readme == ReadmeOf(last')
          IN  /\ ~Exists(fs, readme) =>
                     /\ Succeeded(last'.result) /\ last'.result.obj.created_new = TRUE
                     /\ fs'[readme] =
                            FileEntry(ReadmeTemplate(ProjectName(last'.args.project_dir)))
              /\ (IsFile(fs, readme) /\ last'.args.sections # <<>>
                    /\ fs[readme].data # <<>> /\ ReadError(fs, readme) = "") =>
                     /\ Succeeded(last'.result) /\ last'.result.obj.created_new = FALSE
                     /\ TranslateRead(fs'[readme].data)
                            = TranslateRead(fs[readme].data)
                              \o UpdatesNeeded(last'.args.sections)]_vars

\* C26: after an update_readme call that returns success on a directory whose README.md
\* was a non-empty file, the text the README had is a prefix of the text it has, also
\* when the README could not be read and when no sections are given.
C26_ReadmeKept ==
    [][(last = NoCall /\ UpdatesReadme(last', fs) /\ Succeeded(last'.result)
          /\ IsFile(fs, ReadmeOf(last')) /\ fs[ReadmeOf(last')].data # <<>>)
         => IsPrefix(TranslateRead(fs[ReadmeOf(last')].data),
                     TranslateRead(fs'[ReadmeOf(last')].data))]_vars

\* What does hold: the text is kept when the README is UTF-8.
C26_ReadmeKeptReadable ==
    [][(last = NoCall /\ UpdatesReadme(last', fs) /\ Succeeded(last'.result)
          /\ IsFile(fs, ReadmeOf(last')) /\ fs[ReadmeOf(last')].data # <<>>
          /\ ReadError(fs, ReadmeOf(last')) = "")
         => IsPrefix(TranslateRead(fs[ReadmeOf(last')].data),
                     TranslateRead(fs'[ReadmeOf(last')].data))]_vars

-----------------------------------------------------------------------------
(* analyze_code called again, among calls of other tools.                  *)

\* analyze_code; the call can be noted in `report`, with the disk it was made on, to be
\* compared with a later one.
AnalyzeCodeNoted ==
    /\ Idle
    /\ \E p \in ArgPaths :
           LET out == analyze_code(fs, p)
           IN  /\ fs' = out.fs
               /\ last' = [tool |-> "analyze_code", args |-> [file_path |-> p],
                           result |-> out.result]
               /\ chain' = NextChain(chain, "analyze_code", p, <<>>, out.result)
               /\ report' \in {report, [file_path |-> p, disk |-> fs, result |-> out.result]}
    /\ UNCHANGED <<parsed, client, wire>>

NextAnalysis ==
    \/ AnalyzeCodeNoted
    \/ UpdateFile
    \/ DeleteFile
    \/ GetFile
    \/ GenerateDocstring
    \/ Respond

SpecAnalysis == Init /\ [][NextAnalysis]_vars

-----------------------------------------------------------------------------
(* What a failed call leaves behind.                                       *)

\* C24: a tool call that returns a failure result leaves the filesystem as it was before
\* the call: no directory was made and no file was written, copied, moved or deleted.
C24_FailureLeavesDisk ==
    [][(last = NoCall /\ last' # NoCall /\ MarkedFailure(last'.result)) => fs' = fs]_vars

\* The tools that only read.
ReadingTools ==
    {"list_files", "get_file", "analyze_code", "generate_docstring", "get_project_tree",
     "get_file_info", "find_files"}

\* What does hold: a call of a tool that only reads leaves the filesystem as it was,
\* whatever it returns.
C24_ReadingLeavesDisk ==
    [][(last = NoCall /\ last'.tool \in ReadingTools) => fs' = fs]_vars

-----------------------------------------------------------------------------
(* generate_docstring called with a name and a line.                       *)

\* The classes and def functions of a tree with a name, and those of them on a line.
Named(t, object_name) ==
    {i \in 1..Len(t) : t[i].kind \in {"ClassDef", "FunctionDef"} /\ t[i].name = object_name}
NamedAt(t, object_name, line_number) ==
    {i \in Named(t, object_name) : t[i].lineno = line_number}

\* A call of generate_docstring with both a name and a line.
BothGiven(call) ==
    /\ call.tool = "generate_docstring"
    /\ call.args.object_name # "" /\ call.args.line_number # 0

\* C25: generate_docstring called with a name and a line, where a class or function of
\* that name is declared on that line, returns the suggestion for the declaration on
\* that line, also when several declarations of the file have the name.
C25_DeclarationAtLine ==
    (BothGiven(last)
       /\ NamedAt(parsed, last.args.object_name, last.args.line_number) # {})
        => /\ Succeeded(last.result)
           /\ last.result.obj.line_number = last.args.line_number

\* What does hold: the suggestion is for a declaration of that name, and for the one on
\* the line when no other declaration has the name.
C25_DeclarationOfName ==
    (BothGiven(last)
       /\ NamedAt(parsed, last.args.object_name, last.args.line_number) # {})
        => /\ Succeeded(last.result)
           /\ ResultTarget(parsed, last.result.obj) \in Named(parsed, last.args.object_name)
           /\ Cardinality(Named(parsed, last.args.object_name)) = 1
                  => last.result.obj.line_number = last.args.line_number

-----------------------------------------------------------------------------
(* The client's update_docstrings against the server.                      *)

\* What the file holds: nothing, a text that does not parse, a function without a
\* docstring, one with a docstring, two without, a text that is not UTF-8.
DocstringTexts ==
    {<<>>, <<"(", LF>>, <<"def f(): pass", LF>>, <<"def g(): 'd'", LF>>,
     <<"def f(): pass", LF, "def f(): pass", LF>>, <<BadByte, LF>>}

\* The code the language model hands back, once the fence around it is taken off.
ModelTexts == {<<>>, <<"def g(): 'd'", LF>>}

\* The functions of an analysis that have no docstring.
FunctionItems(functions) ==
    LET without == SelectSeq(functions, LAMBDA e : e.docstring = "No docstring")
    IN  [j \in 1..Len(without) |->
            [type |-> "function", name |-> <<without[j].name>>, line |-> without[j].lineno]]

\* A class that has no docstring, then its methods that have none; the name of a method
\* is "Class.method", here the pair of its parts.
RECURSIVE ClassItems(_)
ClassItems(classes) ==
    IF classes = <<>> THEN <<>>
    ELSE LET c == Head(classes)
             without == SelectSeq(Get(c, "methods", <<>>),
                                  LAMBDA e : e.docstring = "No docstring")
         IN  (IF c.docstring = "No docstring"
              THEN <<[type |-> "class", name |-> <<c.name>>, line |-> c.lineno]>>
              ELSE <<>>)
             \o [j \in 1..Len(without) |->
                    [type |-> "method", name |-> <<c.name, without[j].name>>,
                     line |-> without[j].lineno]]
             \o ClassItems(Tail(classes))

\* items_without_docstrings
ItemsWithoutDocstrings(analysis) ==
    FunctionItems(Get(analysis, "functions", <<>>))
    \o ClassItems(Get(analysis, "classes", <<>>))

\* if not items_without_docstrings
NothingToDocument(analysis) == ItemsWithoutDocstrings(analysis) = <<>>

\* The coroutine update_docstrings before its first statement.
NoAnalysis == [error |-> "none"]
NotReturned == [status |-> "none"]

InitDocClient ==
    /\ fs = [p \in AllPaths |-> Absent]
    /\ last = NoCall
    /\ chain = NoChain
    /\ parsed = <<>>
    /\ report = NoReport
    /\ \E p \in {<<"m.py">>, <<"s">>} :
           client = [pc |-> "line180", file_path |-> p, original_content |-> <<>>,
                     analysis |-> NoAnalysis, items |-> <<>>, generated |-> 0,
                     updated_items |-> <<>>, updated_content |-> <<>>, sent |-> <<>>,
                     returned |-> NotReturned]
    /\ wire = NoWire

\* Before the client starts, the disk holds the file, or a directory of its name.
FileHolds ==
    /\ client.pc = "line180"
    /\ \E p \in {<<"m.py">>, <<"s">>}, e \in {DirEntry} \cup {FileEntry(t) : t \in DocstringTexts} :
           /\ ~Exists(fs, p)
           /\ fs' = [fs EXCEPT ![p] = e]
    /\ UNCHANGED <<last, chain, parsed, report, client, wire>>

\* session.call_tool(tool, args) of update_docstrings and generate_file: the request
\* goes out and the call is noted.
CallTool(c, tool, args, await) ==
    /\ wire' = Send(wire, tool, args)
    /\ client' = [c EXCEPT !.pc = await, !.sent = Append(@, tool)]
    /\ UNCHANGED <<fs, last, chain, parsed, report>>

\* line 180: await self.session.call_tool("get_file", {"file_path": file_path})
CallGetFile ==
    /\ client.pc = "line180"
    /\ CallTool(client, "get_file", [file_path |-> client.file_path], "await180")

\* line 181: original_content = file_content.content[0].text
ReturnGetFile ==
    /\ client.pc = "await180"
    /\ wire.responses # <<>>
    /\ wire' = [wire EXCEPT !.responses = Tail(@)]
    /\ client' = [client EXCEPT !.original_content = Head(wire.responses).text,
                                !.pc = "line184"]
    /\ UNCHANGED <<fs, last, chain, parsed, report>>

\* line 184: await self.session.call_tool("analyze_code", {"file_path": file_path})
CallAnalyzeFile ==
    /\ client.pc = "line184"
    /\ CallTool(client, "analyze_code", [file_path |-> client.file_path], "await184")

\* lines 185-221: the items without docstrings are collected; without any the coroutine
\* returns.
ReturnAnalyzeFile ==
    /\ client.pc = "await184"
    /\ wire.responses # <<>>
    /\ wire' = [wire EXCEPT !.responses = Tail(@)]
    /\ LET analysis == Received(wire)
       IN  client' =
               IF NothingToDocument(analysis)
               THEN [client EXCEPT !.analysis = analysis, !.pc = "returned",
                                   !.returned = [status |-> "success",
                                                 updated_items |-> <<>>]]
               ELSE [client EXCEPT !.analysis = analysis, !.pc = "line229",
                                   !.items = ItemsWithoutDocstrings(analysis)]
    /\ UNCHANGED <<fs, last, chain, parsed, report>>

\* lines 227-233: generate_docstring for the next item, with the last part of its name
\* and its line.
CallGenerateDocstring ==
    /\ client.pc = "line229"
    /\ LET item == client.items[client.generated + 1]
       IN  CallTool(client, "generate_docstring",
                    [file_path |-> client.file_path,
                     object_name |-> item.name[Len(item.name)],
                     line_number |-> item.line], "await229")

\* lines 235-244, 296-300: a suggestion that succeeded is kept; after the last item the coroutine
\* goes on to the language model, or returns when nothing was suggested.
ReturnGenerateDocstring ==
    /\ client.pc = "await229"
    /\ wire.responses # <<>>
    /\ wire' = [wire EXCEPT !.responses = Tail(@)]
    /\ LET docstring_data == Received(wire)
           item == client.items[client.generated + 1]
           updated_items ==
               IF Get(docstring_data, "success", FALSE)
               THEN Append(client.updated_items,
                           [name |-> item.name,
                            docstring |-> docstring_data.suggested_docstring])
               ELSE client.updated_items
       IN  client' =
               IF client.generated + 1 < Len(client.items)
               THEN [client EXCEPT !.generated = @ + 1, !.updated_items = updated_items,
                                   !.pc = "line229"]
               ELSE IF updated_items # <<>>
               THEN [client EXCEPT !.generated = @ + 1, !.updated_items = updated_items,
                                   !.pc = "line245"]
               ELSE [client EXCEPT !.generated = @ + 1, !.pc = "returned",
                                   !.returned = [status |-> "info", updated_items |-> <<>>]]
    /\ UNCHANGED <<fs, last, chain, parsed, report>>

\* lines 245-274: self.anthropic.messages.create(...) answers with some code, or raises
\* and the exception leaves update_docstrings.
AskModelForDocstrings ==
    /\ client.pc = "line245"
    /\ \/ \E text \in ModelTexts :
              client' = [client EXCEPT !.updated_content = text, !.pc = "line276"]
       \/ client' = [client EXCEPT !.pc = "raised"]
    /\ UNCHANGED <<fs, last, chain, parsed, report, wire>>

\* lines 276-279: await self.session.call_tool("update_file", ...)
CallUpdateFile ==
    /\ client.pc = "line276"
    /\ CallTool(client, "update_file",
                [file_path |-> client.file_path, content |-> client.updated_content],
                "await276")

\* lines 281-294
ReturnUpdateFile ==
    /\ client.pc = "await276"
    /\ wire.responses # <<>>
    /\ wire' = [wire EXCEPT !.responses = Tail(@)]
    /\ client' = [client EXCEPT
                      !.pc = "returned",
                      !.returned = IF Get(Received(wire), "success", FALSE)
                                   THEN [status |-> "success",
                                         updated_items |-> client.updated_items]
                                   ELSE [status |-> "error", updated_items |-> <<>>]]
    /\ UNCHANGED <<fs, last, chain, parsed, report>>

NextDocClient ==
    \/ FileHolds
    \/ CallGetFile
    \/ ReturnGetFile
    \/ CallAnalyzeFile
    \/ ReturnAnalyzeFile
    \/ CallGenerateDocstring
    \/ ReturnGenerateDocstring
    \/ AskModelForDocstrings
    \/ CallUpdateFile
    \/ ReturnUpdateFile
    \/ Serve

SpecDocClient == InitDocClient /\ [][NextDocClient]_vars

\* How often a tool was called.
CallsOf(c, tool) == Cardinality({j \in 1..Len(c.sent) : c.sent[j] = tool})

\* update_docstrings returned success without any item updated.
NothingUpdated(c) ==
    c.pc = "returned" /\ c.returned.status = "success" /\ c.returned.updated_items = <<>>

\* update_file is called at most once, and only after a generate_docstring call that
\* succeeded.
UpdateFileOnce(c) ==
    /\ CallsOf(c, "update_file") <= 1
    /\ CallsOf(c, "update_file") = 1 =>
           (CallsOf(c, "generate_docstring") >= 1 /\ c.updated_items # <<>>)

\* C27: update_docstrings returns success with no updated items only when analyze_code
\* returned a report, without error, in which every function, class and method has a
\* docstring; when analyze_code returned an error it does not report success; and
\* update_file is called at most once, only after a generate_docstring call succeeded.
C27_SuccessOnlyWhenDocumented ==
    /\ NothingUpdated(client) =>
           /\ "error" \notin DOMAIN client.analysis
           /\ "functions" \in DOMAIN client.analysis
           /\ ItemsWithoutDocstrings(client.analysis) = <<>>
    /\ (client.pc = "returned" /\ "error" \in DOMAIN client.analysis)
           => client.returned.status # "success"
    /\ UpdateFileOnce(client)

\* What does hold: success with no updated items is returned only when the analysis
\* lists no function, class or method without a docstring, which an analysis that is an
\* error does not either; and update_file is called at most once, after a suggestion.
C27_SuccessWhenNothingListed ==
    /\ NothingUpdated(client) => ItemsWithoutDocstrings(client.analysis) = <<>>
    /\ UpdateFileOnce(client)

-----------------------------------------------------------------------------
(* The client's generate_file against the server.                          *)

\* The project directories and the relative paths the user names.
GenDirs == {<<"s">>, <<"m.py">>}
GenFiles == {<<"m.py">>, <<"s">>}

\* The code the language model hands back, once the fence around it is taken off.
GeneratedTexts == {<<>>, <<"x", LF>>, <<Surrogate>>}

\* os.path.join(project_dir, file_path) of a relative file_path
JoinPaths(project_dir, file_path) == project_dir \o file_path

\* (the check is skipped)
FileExistsAt_Never(f, abs_file_path) == FALSE

\* os.path.exists(abs_file_path)
FileExistsAt(f, abs_file_path) == Exists(f, abs_file_path)

InitGenClient ==
    /\ fs = [p \in AllPaths |-> Absent]
    /\ last = NoCall
    /\ chain = NoChain
    /\ parsed = <<>>
    /\ report = NoReport
    /\ \E d \in GenDirs, p \in GenFiles :
           client = [pc |-> "line315", project_dir |-> d, file_path |-> p,
                     abs_file_path |-> JoinPaths(d, p), file_exists |-> FALSE,
                     generated_content |-> <<>>, create_data |-> [success |-> FALSE],
                     sent |-> <<>>, returned |-> NotReturned]
    /\ wire = NoWire

\* Before the client starts, the disk holds files and directories.
TargetHolds ==
    /\ client.pc = "line315"
    /\ \E p \in ArgPaths, e \in {DirEntry} \cup {FileEntry(t) : t \in Contents} :
           /\ ~Exists(fs, p)
           /\ ParentIsDir(fs, p)
           /\ fs' = [fs EXCEPT ![p] = e]
    /\ UNCHANGED <<last, chain, parsed, report, client, wire>>

\* line 315: await self.session.call_tool("get_project_tree", {"directory": project_dir})
CallProjectTree ==
    /\ client.pc = "line315"
    /\ CallTool(client, "get_project_tree", [directory |-> client.project_dir], "await315")

\* lines 316-328: the tree arrives; when the target exists the coroutine returns an
\* error.
ReturnProjectTree ==
    /\ client.pc = "await315"
    /\ wire.responses # <<>>
    /\ wire' = [wire EXCEPT !.responses = Tail(@)]
    /\ LET file_exists == FileExistsAt(fs, client.abs_file_path)
       IN  client' =
               IF file_exists
               THEN [client EXCEPT !.file_exists = TRUE, !.pc = "returned",
                                   !.returned = [status |-> "error"]]
               ELSE [client EXCEPT !.pc = "line409"]
    /\ UNCHANGED <<fs, last, chain, parsed, report>>

\* lines 409-421: self.anthropic.messages.create(...) answers with some code, or raises
\* and the exception leaves generate_file.
AskModelForFile ==
    /\ client.pc = "line409"
    /\ \/ \E text \in GeneratedTexts :
              client' = [client EXCEPT !.generated_content = text, !.pc = "line424",
                                      !.sent = Append(@, "messages.create")]
       \/ client' = [client EXCEPT !.pc = "raised", !.sent = Append(@, "messages.create")]
    /\ UNCHANGED <<fs, last, chain, parsed, report, wire>>

\* lines 424-427: await self.session.call_tool("create_file", ...)
CallCreateFile ==
    /\ client.pc = "line424"
    /\ CallTool(client, "create_file",
                [file_path |-> client.abs_file_path, content |-> client.generated_content],
                "await424")

\* lines 429-443
ReturnCreateFile ==
    /\ client.pc = "await424"
    /\ wire.responses # <<>>
    /\ wire' = [wire EXCEPT !.responses = Tail(@)]
    /\ LET create_data == Received(wire)
       IN  client' = [client EXCEPT
                         !.create_data = create_data,
                         !.pc = "returned",
                         !.returned = IF Get(create_data, "success", FALSE)
                                      THEN [status |-> "success"]
                                      ELSE [status |-> "error"]]
    /\ UNCHANGED <<fs, last, chain, parsed, report>>

NextGenClient ==
    \/ TargetHolds
    \/ CallProjectTree
    \/ ReturnProjectTree
    \/ AskModelForFile
    \/ CallCreateFile
    \/ ReturnCreateFile
    \/ Serve

SpecGenClient == InitGenClient /\ [][NextGenClient]_vars

\* generate_file has started: the disk is no longer prepared.
Started(c) == c.pc # "line315" \/ c.sent # <<>>

\* No step of a started generate_file changes or removes a file the disk holds.
KeepsFiles == Started(client) => \A p \in AllPaths : fs[p].kind = "file" => fs'[p] = fs[p]

\* The target was found at the check: an error, no request to the model, no create_file.
RefusedExisting(c) ==
    /\ c.returned.status = "error"
    /\ c.sent = <<"get_project_tree">>

\* The target was not found: the model was asked once, then create_file was called once,
\* and the status says whether create_file succeeded.
CreatedOnce(c) ==
    /\ c.sent = <<"get_project_tree", "messages.create", "create_file">>
    /\ c.returned.status = "success" <=> Get(c.create_data, "success", FALSE)
    /\ c.returned.status = "success" <=>
           (IsFile(fs, c.abs_file_path) /\ fs[c.abs_file_path].data = c.generated_content)

\* C28: generate_file never overwrites an existing file. When the target exists at the
\* check it returns status error without a request to the model and without create_file;
\* otherwise create_file is called exactly once, after the model answered, and the
\* status is success exactly when create_file reported success.
C28_NeverOverwrites ==
    /\ [][KeepsFiles]_vars
    /\ [](client.pc = "returned" =>
              IF client.file_exists THEN RefusedExisting(client) ELSE CreatedOnce(client))
    /\ [](CallsOf(client, "create_file") = 1 =>
              (~client.file_exists /\ client.pc \in {"await424", "returned"}))

\* generate_file has returned for a target that is a file with a text: the file is as it
\* was, and neither the model nor create_file was called.
C28_Witness ==
    /\ client.pc = "returned"
    /\ client.file_exists
    /\ IsFile(fs, client.abs_file_path)
    /\ fs[client.abs_file_path].data = <<"x", CR, LF>>
    /\ client.returned.status = "error"

\* generate_file has returned success for a target that did not exist.
C28_Created ==
    /\ client.pc = "returned"
    /\ ~client.file_exists
    /\ client.returned.status = "success"
    /\ fs[client.abs_file_path].data = <<"x", LF>>

-----------------------------------------------------------------------------
(* search_in_files                                                         *)

\* A form feed: str.splitlines() ends a line at it, a text file does not.
FF == "\f"

\* content.splitlines(): a line ends at "\n", "\r\n", "\r" and at a form feed, and
\* the end of the text ends the last one.
RECURSIVE SplitLines(_)
SplitLines(t) ==
    IF t = <<>> THEN <<>>
    ELSE IF \E i \in 1..Len(t) : t[i] \in {LF, CR, FF}
         THEN LET i == CHOOSE k \in 1..Len(t) :
                           t[k] \in {LF, CR, FF} /\ \A j \in 1..(k - 1) : t[j] \notin {LF, CR, FF}
                  skip == IF t[i] = CR /\ i < Len(t) /\ t[i + 1] = LF THEN i + 1 ELSE i
              IN  <<SubSeq(t, 1, i - 1)>> \o SplitLines(SubSeq(t, skip + 1, Len(t)))
         ELSE <<t>>

\* re.compile(pattern) raises re.error: "(" is an unterminated group.
ReError(pattern) == IF pattern = "(" THEN "re.error" ELSE ""

\* re.search(pattern, line) for a pattern that is a plain word
Search(pattern, line) == \E i \in 1..Len(line) : line[i] = pattern

\* glob.fnmatch.fnmatch(file, file_pattern)
FnmatchName(file, file_pattern) == file = file_pattern \/ Fnmatch(file, file_pattern)

\* The matches of the lines: 1-based line number and line.
MatchesOf(lines, pattern) ==
    LET hits == SelectSeq([i \in 1..Len(lines) |-> i], LAMBDA i : Search(pattern, lines[i]))
    IN  [j \in 1..Len(hits) |-> [line_number |-> hits[j], line |-> lines[hits[j]]]]

\* The inner try of one file: whatever is raised, by open, by read or by re.search on
\* the first line, is logged and the file is passed over.
SearchFile(f, file_path, pattern) ==
    IF ReadError(f, file_path) # "" THEN [raised |-> "", matches |-> <<>>]
    ELSE LET lines == SplitLines(ReadText(f, file_path))
         IN  IF lines # <<>> /\ ReError(pattern) # ""
             THEN [raised |-> "", matches |-> <<>>]
             ELSE [raised |-> "", matches |-> MatchesOf(lines, pattern)]

\* for root, _, files in os.walk(directory): the files of a directory, then those of its
\* subdirectories, the entries of a directory in the order the system lists them.
RECURSIVE WalkFiles(_, _, _)
RECURSIVE WalkDirs(_, _, _, _)
WalkFiles(f, root, order) ==
    LET entries == SelectSeq(order, LAMBDA n : Exists(f, Join(root, n)))
        files == SelectSeq(entries, LAMBDA n : IsFile(f, Join(root, n)))
        dirs == SelectSeq(entries, LAMBDA n : IsDir(f, Join(root, n)))
    IN  [j \in 1..Len(files) |-> Join(root, files[j])] \o WalkDirs(f, root, dirs, order)
WalkDirs(f, root, dirs, order) ==
    IF dirs = <<>> THEN <<>>
    ELSE WalkFiles(f, Join(root, Head(dirs)), order) \o WalkDirs(f, root, Tail(dirs), order)

\* The loop over the files: results, and the first exception that left the inner try.
RECURSIVE SearchFiles(_, _, _, _)
SearchFiles(f, files, pattern, file_pattern) ==
    IF files = <<>> THEN [raised |-> "", results |-> <<>>]
    ELSE IF ~FnmatchName(Basename(Head(files)), file_pattern)
    THEN SearchFiles(f, Tail(files), pattern, file_pattern)
    ELSE LET one == SearchFile(f, Head(files), pattern)
             rest == SearchFiles(f, Tail(files), pattern, file_pattern)
         IN  IF one.raised # "" THEN [raised |-> one.raised, results |-> <<>>]
             ELSE IF one.matches # <<>>
             THEN [rest EXCEPT !.results = <<[file |-> Head(files), matches |-> one.matches]>> \o @]
             ELSE rest

\* sum(len(r["matches"]) for r in results)
RECURSIVE MatchCount(_)
MatchCount(results) ==
    IF results = <<>> THEN 0 ELSE Len(Head(results).matches) + MatchCount(Tail(results))

\* order: the order in which the system lists the entries of a directory.
search_in_files(f, directory, pattern, file_pattern, order) ==
    ExceptSuccessFalse(
        IF ~IsDir(f, directory)
        THEN Return(f, JsonResult([success |-> FALSE, error |-> "Directory not found"]))
        ELSE LET found == SearchFiles(f, WalkFiles(f, directory, order), pattern, file_pattern)
             IN  IF found.raised # "" THEN Raise(f, found.raised)
                 ELSE Return(f, JsonResult([success |-> TRUE, pattern |-> pattern,
                                            file_pattern |-> file_pattern,
                                            results |-> found.results,
                                            count |-> MatchCount(found.results)])))

\* What a file holds: nothing, two lines of which the second has the word x, a text
\* that is not UTF-8, a line with a form feed in it.
SearchTexts == {<<>>, <<"y", LF, "x", CR, LF>>, <<BadByte, "x", LF>>, <<"x", FF, "x", LF>>}

\* Words, and a pattern that is no regular expression.
SearchPatterns == {"x", "y", "("}
FilePatterns == {"*.py", "*", "s"}

SearchHolds ==
    /\ Idle
    /\ \E p \in ArgPaths, e \in {DirEntry} \cup {FileEntry(t) : t \in SearchTexts} :
           /\ ~Exists(fs, p)
           /\ ParentIsDir(fs, p)
           /\ fs' = [fs EXCEPT ![p] = e]
    /\ UNCHANGED <<last, chain, parsed, report, client, wire>>

SearchInFiles ==
    /\ Idle
    /\ \E d \in DirArgs, pattern \in SearchPatterns, file_pattern \in FilePatterns,
          order \in Orders(Names) :
           Called("search_in_files",
                  [directory |-> d, pattern |-> pattern, file_pattern |-> file_pattern],
                  d, <<>>, search_in_files(fs, d, pattern, file_pattern, order))

NextSearch == SearchHolds \/ SearchInFiles \/ Respond

SpecSearch == Init /\ [][NextSearch]_vars

\* The number of the line of a text file the part i lies on: one more than the
\* newlines before it.
LineOf(t, i) == 1 + Cardinality({j \in 1..(i - 1) : t[j] = LF})

\* The line k of a text, without its newline.
LineAt(t, k) ==
    LET on == SelectSeq([i \in 1..Len(t) |-> i], LAMBDA i : t[i] # LF /\ LineOf(t, i) = k)
    IN  [j \in 1..Len(on) |-> t[on[j]]]

\* The files below a directory whose name matches file_pattern and whose text reads.
SearchedFiles(f, directory, file_pattern) ==
    {p \in Below(f, NodeOf(directory)) :
        IsFile(f, p) /\ FnmatchName(Basename(p), file_pattern) /\ ReadError(f, p) = ""}

\* The lines of a file that hold the word: pairs of file and line number.
MatchingLines(f, files, pattern) ==
    UNION {{<<p, LineOf(ReadText(f, p), i)>> :
               i \in {j \in 1..Len(ReadText(f, p)) : ReadText(f, p)[j] = pattern}} :
           p \in files}

\* The pairs of file and line number a result lists.
ListedLines(results) ==
    UNION {{<<results[j].file, results[j].matches[k].line_number>> :
               k \in 1..Len(results[j].matches)} : j \in 1..Len(results)}

\* A successful result counts and lists the matching lines of the searched files, each
\* once with its number and its text, and lists no file without a match.
ListsMatchingLines(f, call) ==
    LET o == call.result.obj
        expected == MatchingLines(f, SearchedFiles(f, call.args.directory, call.args.file_pattern),
                                  call.args.pattern)
    IN  /\ o.count = Cardinality(expected)
        /\ ListedLines(o.results) = expected
        /\ MatchCount(o.results) = o.count
        /\ \A j \in 1..Len(o.results) :
               /\ o.results[j].matches # <<>>
               /\ \A k \in 1..Len(o.results[j].matches) :
                      LET m == o.results[j].matches[k]
                      IN  m.line = LineAt(ReadText(f, o.results[j].file), m.line_number)

Searches(call) == call.tool = "search_in_files"

\* C29: search_in_files with a pattern that is not a valid regular expression returns a
\* failure (success false with an error), never a success with an empty list; and in a
\* success the count is the number of matching lines over the files whose name matches
\* file_pattern, each match has its 1-based line number and the text of the line, and a
\* file without a match is not listed.
C29_InvalidPatternFails ==
    [][(last = NoCall /\ Searches(last')) =>
          /\ ReError(last'.args.pattern) # "" =>
                 /\ ~Succeeded(last'.result)
                 /\ "error" \in DOMAIN last'.result.obj
          /\ Succeeded(last'.result) => ListsMatchingLines(fs, last')]_vars

\* A form feed occurs in a file that is searched.
HasFormFeed(f, files) == \E p \in files : \E i \in 1..Len(f[p].data) : f[p].data[i] = FF

\* What does hold: with a valid pattern on a directory the result is a success that
\* counts and lists the matching lines, when no searched file holds a form feed.
C29_ValidPatternLists ==
    [][(last = NoCall /\ Searches(last') /\ ReError(last'.args.pattern) = ""
          /\ IsDir(fs, last'.args.directory))
        => /\ Succeeded(last'.result)
           /\ HasFormFeed(fs, SearchedFiles(fs, last'.args.directory, last'.args.file_pattern))
              \/ ListsMatchingLines(fs, last')]_vars

\* What does hold too: a directory that is none is answered with a failure.
C29_NoDirectoryFails ==
    [][(last = NoCall /\ Searches(last') /\ ~IsDir(fs, last'.args.directory))
        => (~Succeeded(last'.result) /\ "error" \in DOMAIN last'.result.obj)]_vars

====
